---- MODULE Spec2Model ----
(***************************************************************************)
(* State-machine model of the AnyRouter automation scripts:                *)
(*   - AnyRouterGitHubSignIn / AnyRouterLinuxDoSignIn.loginAndGetSession    *)
(*     and processAccounts (src/src/checkin/checkin-github.js),            *)
(*   - the device-verification polling loop inside the GitHub login,       *)
(*   - AnyRouterChangePassword and the batch change-password runner        *)
(*     (src/src/changePassword/change-password.js, src/src/utils/notify.js)*)
(***************************************************************************)
EXTENDS Integers, Sequences, FiniteSets, TLC

(***************************************************************************)
(* Bounds of the model (not program constants).                            *)
(***************************************************************************)
MaxAccounts == 2
MaxResponses == 1
MaxLatency == 200
MaxSkew == 1
MaxExpire == 10400
RandScale == 1000

(***************************************************************************)
(* Program constants.                                                      *)
(***************************************************************************)
PollingInterval == 5000
PollJitter == 500
FillDelayMin == 300
FillDelayMax == 600
AccountDelayMin == 5000
AccountDelayMax == 7000
BatchDelayBase == 5000
BatchDelaySpan == 5000

(***************************************************************************)
(* JavaScript values, as far as the scripts look at them: null, undefined, *)
(* numbers and strings (a string is the sequence of its characters).       *)
(***************************************************************************)
JSNull == [t |-> "null", n |-> 0, s |-> <<>>]
JSUndef == [t |-> "undefined", n |-> 0, s |-> <<>>]
JSNum(k) == [t |-> "number", n |-> k, s |-> <<>>]
JSStr(chars) == [t |-> "string", n |-> 0, s |-> chars]

\* JavaScript truthiness: null, undefined, 0 and "" are falsy.
Truthy(v) ==
    CASE v.t = "number" -> v.n # 0
      [] v.t = "string" -> v.s # <<>>
      [] OTHER -> FALSE

Digit(d) == <<"0", "1", "2", "3", "4", "5", "6", "7", "8", "9">>[d + 1]

RECURSIVE NumToChars(_)
NumToChars(k) ==
    IF k < 10 THEN <<Digit(k)>> ELSE NumToChars(k \div 10) \o <<Digit(k % 10)>>

\* String(v) for the values an id can take.
ToJSString(v) == IF v.t = "number" THEN JSStr(NumToChars(v.n)) ELSE v

IsSpace(c) == c = " "

RECURSIVE TrimLeft(_)
TrimLeft(chars) ==
    IF chars # <<>> /\ IsSpace(Head(chars)) THEN TrimLeft(Tail(chars)) ELSE chars

RECURSIVE TrimRight(_)
TrimRight(chars) ==
    IF chars # <<>> /\ IsSpace(chars[Len(chars)])
    THEN TrimRight(SubSeq(chars, 1, Len(chars) - 1))
    ELSE chars

\* String.prototype.trim
Trim(chars) == TrimRight(TrimLeft(chars))

\* Math.random() as r / RandScale; the model samples the two ends of [0, 1)
RandomUnits == {0, RandScale - 1}

\* getRandomDelay: Math.floor(Math.random() * (max - min + 1)) + min
GetRandomDelay(min, max, r) == ((r * (max - min + 1)) \div RandScale) + min

\* the delays randomDelay(min, max) can sleep
RandomDelays(min, max) == {GetRandomDelay(min, max, r) : r \in RandomUnits}

(***************************************************************************)
(* Inputs.                                                                 *)
(***************************************************************************)
Variants == {"github", "linuxdo", "changepw"}
LoginVariants == {"github", "linuxdo"}
BaseUrls == {"anyrouter.top", "agentrouter.org"}

\* The k-th identity of a batch; odd ones carry a notice email, even ones a
\* two-factor secret.
Identity(k) ==
    [account_id |-> k, username |-> k, password |-> k,
     notice_email |-> IF k % 2 = 1 THEN "set" ELSE "none",
     twofa_secret |-> IF k % 2 = 0 THEN "set" ELSE "none"]

\* The k-th request of a change-password batch.
ChangeRequest(k) ==
    [record_id |-> k, old_username |-> k, old_password |-> k,
     new_username |-> "set", new_password |-> IF k % 2 = 0 THEN "set" ELSE "none"]

AccountList(v, len) ==
    [k \in 1..len |-> IF v = "changepw" THEN ChangeRequest(k) ELSE Identity(k)]

\* a request that names neither a new username nor a new password
InvalidRequest(k) ==
    [ChangeRequest(k) EXCEPT !.new_username = "none", !.new_password = "none"]

\* const requiredFields = ['record_id', 'old_username', 'old_password']
RequiredFields == {"record_id", "old_username", "old_password"}

\* a request that lacks a required field
LackingRequest(k, f) == [ChangeRequest(k) EXCEPT ![f] = 0]

\* the lists a change-password batch is handed: valid ones, and ones whose last
\* request is invalid or lacks a required field
ChangeLists ==
    {AccountList("changepw", len) : len \in 0..MaxAccounts}
      \cup {[AccountList("changepw", len) EXCEPT ![len] = InvalidRequest(len)] :
               len \in 1..MaxAccounts}
      \cup {[AccountList("changepw", len) EXCEPT ![len] = LackingRequest(len, f)] :
               len \in 1..MaxAccounts, f \in RequiredFields}

\* how the batch is entered: as a library call, or through the command line with
\* no argument, an argument that is not JSON, or a JSON list
MainInputs == {"library", "missing", "badjson", "list"}
NoExit == 0 - 1

\* the domains that have cookies in the browser profile: the target's (with
\* and without the leading dot of a domain cookie) and the provider's
CookieDomains == {"agentrouter.org", ".agentrouter.org", "github.com"}

NoArgs ==
    [accountId |-> 0, username |-> 0, password |-> 0,
     noticeEmail |-> "none", twofaSecret |-> "none"]

\* ids a user record can carry
IdValues == {JSUndef, JSNum(0), JSNum(7)}

\* userSelfResponse: null (nothing captured, or response.json() failed), a body
\* without data, or a body whose data carries an id.
NoBody == [kind |-> "null", id |-> JSUndef]
Bodies == {NoBody, [kind |-> "nodata", id |-> JSUndef]}
              \cup {[kind |-> "data", id |-> v] : v \in IdValues}

\* localStorage.getItem('user'): absent, not JSON, the JSON text null, or an
\* object with an id.
LocalUsers == {[kind |-> "absent", id |-> JSUndef], [kind |-> "badjson", id |-> JSUndef],
               [kind |-> "jsonnull", id |-> JSUndef]}
                 \cup {[kind |-> "object", id |-> v] : v \in IdValues}

\* the value of the cookie named session: no such cookie, "" or a token
CookieValues == {JSNull, JSStr(<<>>), JSStr(<<"s">>)}

\* device codes the operator may type into the admin page
Codes == {<<" ">>, <<"1", "2">>, <<" ", "1", " ">>}

ExpireOffsets == {0, PollingInterval + 100, MaxExpire}
NoTime == 0 - 1

NoChange == [success |-> FALSE, is_api_error |-> FALSE, kind |-> "none"]
NoReport == [status |-> 0, increment_error_count |-> FALSE]
NoSingle == [success |-> FALSE, message |-> "none"]

NullResult == [nonNull |-> FALSE, session |-> JSNull, apiUser |-> JSNull, userInfo |-> JSNull]

VARIABLES
    \* ---- batch runner
    variant,            \* which runner executes
    baseUrl,            \* this.baseUrl
    accounts,           \* the input list
    idx,                \* loop index i (1-based)
    results,            \* results
    successCount,
    failedCount,
    bpc,                \* position of the batch loop
    batchRet,           \* what the batch returned
    runOutcome,         \* history: for each finished run, whether it succeeded
    leaked,             \* sessions of finished runs that were never closed
    lastDelay,          \* the delay slept between the last two identities
    delayCount,         \* history: how many delays the batch has slept
    input,              \* how the batch was entered
    exitCode,           \* the code process.exit was called with
    \* ---- one run
    pc,                 \* position of the run
    args,               \* parameters of loginAndGetSession
    ret,                \* the value the run returns
    exitKind,           \* which exit the run took
    browser, context, page,
    userSelfResponse, userSelfResolved, respCount,
    sessionCookie, apiUser,
    idSource,           \* where the extraction took the user id from
    afterLoginUrl,
    landed,             \* history: what currentPageUrl was after the first navigation
    waited,             \* history: a Promise.race on userSelfPromise has ended in this run
    popupWatch,         \* context.waitForEvent('page') is pending
    activePage,         \* which page object the variable page refers to
    popupEvent,         \* history: what became of the page event of the click
    totp,               \* how far the one-time code of the two-factor page got
    finalTotpUrl,       \* page.url() at the end of the two-factor block
    consent,            \* what happened to the approve affordance of the provider
    \* ---- device verification
    now,                \* Date.now(), ms since the run started
    expireTime, maxPollingTime, startTime,
    storeCode,          \* github_device_code of the record in the backend
    deviceCodeFilled,
    observed,           \* loginInfo.github_device_code of the observing poll
    dvOutcome,
    setAt, fillCount, filledValue, filledAt, fetchCount, fetchesAfterObserve,
    expiredReports, expiredAt, goodFetchSinceSet, failedFetchSinceSet,
    \* ---- cleanup
    cleanupRan, closeDue, closeTried,
    allCookies,         \* the cookies of the context when the cleanup starts
    cookiesLeft,        \* the cookies of the context when the cleanup has ended
    againRan,           \* cleanup() of the changer was called a second time
    reclosed,           \* closes the second call made on what was closed already
    \* ---- change-password runner
    changeResult,       \* what changer.changePassword returned
    uploads,            \* every updatePasswordChange call for this account: status, outcome
    reported,           \* the update sent to the record store for this account
    single,             \* what executeSingleChangePassword returns
    \* ---- the global environment of a document the payload is applied to
    present,            \* the optional globals that exist
    ownProps,           \* properties defined on the object itself, not configurable
    reads,              \* what each overridden property reads as
    wraps,              \* how many times the payload replaced each function
    stubs,              \* the globals the payload created
    applied,            \* how many times the payload was applied
    stealthThrew,       \* per application, the step that threw ("none": completed)
    \* ---- a changer whose browser is used for several changePassword calls
    jar,                \* the account whose session cookie the context holds (0: none)
    reuseLog,           \* per call that returned: its result, and the jar before and after
    \* ---- a generator instance and the generateNext calls on it
    genFile,            \* the values in the record file (none when it is missing)
    genLoaded,          \* this.loaded
    genSet,             \* this.generatedStrings
    gpc,                \* where each call stands
    genRead,            \* per call, the content readFile gave
    genData,            \* per call, the data handed to writeFile
    genPick,            \* per call, the value it added to the set
    genReturned,        \* the values returned so far, in order
    \* ---- the setup of a device verification
    lastFetch,          \* how the latest poll of the record ended, until the wait after it
    registered,         \* how addAccountLoginInfo ended: "none", "ok", "rejected", "threw"
    emailTo,            \* where the notice goes: "none", "arg" (noticeEmail), "env" (EMAIL_TO)
    notice,             \* the notice mail: "none", "skipped", "sent", "no_config", "transport_error"
    \* ---- the response handlers of one run, response by response
    popup,              \* the new tab: "none", "opened" (no handler yet), "watched"
    captured,           \* bodies of the responses a handler matched, in arrival order
    inflight,           \* the captured responses whose response.json() is pending
    missed,             \* responses with a user-info URL that no handler matched
    arrivals,           \* responses seen so far
    extractDone,        \* the extraction has read userSelfResponse
    readBody,           \* what it read
    readAfter           \* how many captured responses had arrived when it read

batchVars == <<variant, baseUrl, accounts, idx, results, successCount, failedCount,
               bpc, batchRet, runOutcome, leaked, lastDelay, delayCount, input, exitCode>>
resVars == <<browser, context, page>>
obsVars == <<userSelfResponse, userSelfResolved, respCount>>
exVars == <<sessionCookie, apiUser, idSource>>
dvVars == <<now, expireTime, maxPollingTime, startTime, storeCode, deviceCodeFilled,
            observed, dvOutcome, setAt, fillCount, filledValue, filledAt, fetchCount,
            fetchesAfterObserve, expiredReports, expiredAt, goodFetchSinceSet,
            failedFetchSinceSet>>
flowVars == <<landed, waited, popupWatch, activePage, popupEvent>>
stepVars == <<totp, finalTotpUrl, consent>>
clVars == <<cleanupRan, closeDue, closeTried, allCookies, cookiesLeft, againRan, reclosed>>
cpVars == <<changeResult, reported, single, uploads>>
noteVars == <<registered, emailTo, notice, lastFetch>>
reuseVars == <<jar, reuseLog>>
genVars == <<genFile, genLoaded, genSet, gpc, genRead, genData, genPick, genReturned>>
watchVars == <<popup, captured, inflight, missed, arrivals, extractDone, readBody, readAfter>>
stealthVars == <<present, ownProps, reads, wraps, stubs, applied, stealthThrew>>
vars == <<batchVars, pc, args, ret, exitKind, resVars, obsVars, exVars, afterLoginUrl, flowVars, stepVars,
          dvVars, clVars, cpVars, watchVars, noteVars, stealthVars, genVars, reuseVars>>

(***************************************************************************)
(* stealthScript: the page-initialisation payload, as the steps it runs in *)
(* order on the global environment of a document.                          *)
(***************************************************************************)
MaxApply == 2

\* the globals the payload tests, or uses without a test
OptionalApis ==
    {"chrome", "permissions", "WebGLRenderingContext", "WebGL2RenderingContext",
     "getBattery", "Notification", "mediaDevices"}

\* the statements of the payload, in order
StealthSteps ==
    <<"webdriver", "chrome", "navigator", "plugins", "languages", "permissions", "webgl",
      "webgl2", "toString", "visibility", "battery", "notification", "mediaDevices",
      "screen", "timezone">>

\* the properties a step defines with Object.defineProperty or defineProperties;
\* the descriptors carry a getter only, so the property is not configurable
DefinedBy(step) ==
    CASE step = "webdriver" -> {"webdriver"}
      [] step = "navigator" -> {"platform", "vendor", "productSub", "maxTouchPoints",
                                "hardwareConcurrency", "deviceMemory", "connection"}
      [] step = "plugins" -> {"plugins"}
      [] step = "languages" -> {"languages", "language"}
      [] step = "visibility" -> {"hidden", "visibilityState"}
      [] step = "screen" -> {"availWidth", "availHeight", "width", "height", "colorDepth",
                             "pixelDepth"}
      [] OTHER -> {}

\* the globals a step dereferences without a test
NeededBy(step) ==
    CASE step = "permissions" -> {"permissions"}
      [] step = "webgl" -> {"WebGLRenderingContext"}
      [] step = "webgl2" -> {"WebGL2RenderingContext"}
      [] OTHER -> {}

\* the function a step replaces by assignment, and the global that has to
\* exist for the step to do so ("none": no condition)
ReplacedBy(step) ==
    CASE step = "permissions" -> <<"query", "none">>
      [] step = "webgl" -> <<"getParameter", "none">>
      [] step = "webgl2" -> <<"getParameter2", "none">>
      [] step = "toString" -> <<"toString", "none">>
      [] step = "battery" -> <<"getBattery", "getBattery">>
      [] step = "mediaDevices" -> <<"enumerateDevices", "mediaDevices">>
      [] step = "timezone" -> <<"getTimezoneOffset", "none">>
      [] OTHER -> <<"none", "none">>

\* the global a step creates when it is absent
CreatedBy(step) ==
    CASE step = "chrome" -> {"chrome"}
      [] step = "notification" -> {"Notification"}
      [] OTHER -> {}

Overridden == UNION {DefinedBy(StealthSteps[k]) : k \in 1..Len(StealthSteps)}

ReplacedFns ==
    {ReplacedBy(StealthSteps[k])[1] : k \in 1..Len(StealthSteps)} \ {"none"}

\* the value the getter of an overridden property returns
SpoofedValue(prop) ==
    CASE prop = "webdriver" -> "undefined"
      [] prop = "platform" -> "Win32"
      [] prop = "vendor" -> "Google Inc."
      [] prop = "productSub" -> "20030107"
      [] prop = "maxTouchPoints" -> "0"
      [] prop \in {"hardwareConcurrency", "deviceMemory"} -> "8"
      [] prop = "connection" -> "4g"
      [] prop = "plugins" -> "PDF Viewer, Chrome PDF Viewer, Native Client"
      [] prop = "languages" -> "zh-CN, zh, en-US, en"
      [] prop = "language" -> "zh-CN"
      [] prop = "hidden" -> "false"
      [] prop = "visibilityState" -> "visible"
      [] prop \in {"availWidth", "width"} -> "1920"
      [] prop = "availHeight" -> "1040"
      [] prop = "height" -> "1080"
      [] prop \in {"colorDepth", "pixelDepth"} -> "24"

\* a step throws a TypeError when it defines a property the object already
\* owns as not configurable, and a TypeError or ReferenceError when a global
\* it dereferences is absent
StepThrows(step, e) ==
    \/ DefinedBy(step) \cap e.own # {}
    \/ NeededBy(step) \ e.present # {}

\* the environment after a step that did not throw
StepEffect(step, e) ==
    LET fn == ReplacedBy(step)[1]
        cond == ReplacedBy(step)[2]
        replaces == fn # "none" /\ (cond = "none" \/ cond \in e.present)
    IN  [present |-> e.present \cup CreatedBy(step),
         own |-> e.own \cup DefinedBy(step),
         reads |-> [p \in Overridden |->
                       IF p \in DefinedBy(step) THEN SpoofedValue(p) ELSE e.reads[p]],
         wraps |-> [f \in ReplacedFns |->
                       IF replaces /\ f = fn THEN e.wraps[f] + 1 ELSE e.wraps[f]],
         stubs |-> e.stubs \cup (CreatedBy(step) \ e.present)]

\* the payload from its k-th statement on: the environment it leaves and the
\* statement that threw
RECURSIVE RunStealth(_, _)
RunStealth(e, k) ==
    IF k > Len(StealthSteps) THEN [env |-> e, threw |-> "none"]
    ELSE IF StepThrows(StealthSteps[k], e) THEN [env |-> e, threw |-> StealthSteps[k]]
    ELSE RunStealth(StepEffect(StealthSteps[k], e), k + 1)

\* a document on which no script has run yet
PageFresh ==
    /\ ownProps = {} /\ stubs = {}
    /\ reads = [p \in Overridden |-> "native"]
    /\ wraps = [f \in ReplacedFns |-> 0]
    /\ applied = 0 /\ stealthThrew = <<>>

\* the init script runs on the document
ApplyStealth ==
    /\ applied < MaxApply
    /\ LET r == RunStealth([present |-> present, own |-> ownProps, reads |-> reads,
                            wraps |-> wraps, stubs |-> stubs], 1)
       IN  /\ present' = r.env.present /\ ownProps' = r.env.own /\ reads' = r.env.reads
           /\ wraps' = r.env.wraps /\ stubs' = r.env.stubs
           /\ stealthThrew' = Append(stealthThrew, r.threw)
    /\ applied' = applied + 1
    /\ UNCHANGED <<batchVars, pc, args, ret, exitKind, resVars, obsVars, exVars, afterLoginUrl,
                   flowVars, stepVars, dvVars, clVars, cpVars, watchVars, noteVars, genVars, reuseVars>>

\* a changer that has made no call: the context is new and holds no cookie
ReuseFresh == jar = 0 /\ reuseLog = <<>>

\* the generateNext calls that can be in flight at once, and the values one
\* generator is followed for
MaxInFlight == 2
MaxGenerated == 3

GenCalls == 1..MaxInFlight

\* a generator on which no call has been made, and no record file
GenIdle ==
    /\ genFile = {} /\ genLoaded = FALSE /\ genSet = {}
    /\ gpc = [c \in GenCalls |-> "idle"]
    /\ genRead = [c \in GenCalls |-> {}] /\ genData = [c \in GenCalls |-> {}]
    /\ genPick = [c \in GenCalls |-> "none"]
    /\ genReturned = <<>>

\* no response has been seen and no tab has been opened
WatchFresh ==
    /\ popup = "none" /\ captured = <<>> /\ inflight = {} /\ missed = {}
    /\ arrivals = 0 /\ extractDone = FALSE /\ readBody = NoBody /\ readAfter = 0

(***************************************************************************)
(* Initial state: a runner has been constructed and handed a list.         *)
(***************************************************************************)
RunInit ==
    /\ pc = "idle" /\ args = NoArgs /\ ret = NullResult /\ exitKind = "none"
    /\ browser = "null" /\ context = "null" /\ page = "null"
    /\ userSelfResponse = NoBody /\ userSelfResolved = FALSE /\ respCount = 0
    /\ sessionCookie = JSNull /\ apiUser = JSNull /\ idSource = "none"
    /\ afterLoginUrl = "none"
    /\ landed = "none" /\ waited = FALSE /\ popupWatch = FALSE
    /\ activePage = "main" /\ popupEvent = "none"
    /\ totp = "none" /\ finalTotpUrl = "none" /\ consent = "none"
    /\ registered = "none" /\ emailTo = "none" /\ notice = "none" /\ lastFetch = "none"
    /\ now = 0 /\ expireTime = 0 /\ maxPollingTime = 0 /\ startTime = 0
    /\ storeCode = <<>> /\ deviceCodeFilled = FALSE /\ observed = <<>>
    /\ dvOutcome = "none"
    /\ setAt = NoTime /\ fillCount = 0 /\ filledValue = <<>> /\ filledAt = NoTime
    /\ fetchCount = 0 /\ fetchesAfterObserve = 0
    /\ expiredReports = 0 /\ expiredAt = NoTime
    /\ goodFetchSinceSet = FALSE /\ failedFetchSinceSet = FALSE
    /\ cleanupRan = FALSE /\ closeDue = {} /\ closeTried = {}
    /\ cookiesLeft = allCookies /\ againRan = FALSE /\ reclosed = {}
    /\ changeResult = NoChange /\ reported = NoReport /\ single = NoSingle /\ uploads = <<>>

RunnerInit ==
    /\ variant \in Variants
    /\ baseUrl \in (IF variant = "github" THEN BaseUrls ELSE {"anyrouter.top"})
    /\ input \in (CASE variant = "changepw" -> MainInputs
                     [] variant = "github" -> {"library", "direct"}
                     [] OTHER -> {"library"})
    /\ CASE variant = "changepw" ->
              accounts \in (IF input \in {"missing", "badjson"} THEN {<<>>} ELSE ChangeLists)
         [] input = "direct" -> \E k \in 1..2 : accounts = <<Identity(k)>>
         [] OTHER -> \E len \in 0..MaxAccounts : accounts = AccountList(variant, len)
    /\ idx = 1 /\ results = <<>> /\ successCount = 0 /\ failedCount = 0
    /\ delayCount = 0 /\ exitCode = NoExit
    /\ bpc = (CASE input = "library" -> "loop" [] input = "direct" -> "direct"
                 [] OTHER -> "main")
    /\ batchRet = [done |-> FALSE, total |-> 0, success |-> 0, failed |-> 0]
    /\ runOutcome = <<>> /\ leaked = 0 /\ lastDelay = 0
    /\ allCookies = CookieDomains
    /\ RunInit

Init == RunnerInit /\ present = OptionalApis /\ PageFresh /\ WatchFresh /\ GenIdle /\ ReuseFresh


(***************************************************************************)
(* Control flow of one run.  A return statement inside try/finally hands   *)
(* its value to the finally block, which runs before the caller sees it.   *)
(***************************************************************************)
\* a return that would reach the caller without passing the finally block
ReturnBypassesFinally == "returned"

\* where a return statement inside the try block continues
ReturnPc == "finally"

Return(v, kind) == pc' = ReturnPc /\ ret' = v /\ exitKind' = kind

\* an exception inside the try block: the catch block logs and returns null
Throw == pc' = "finally" /\ ret' = NullResult /\ exitKind' = "thrown"

Goto(p) == pc' = p /\ UNCHANGED <<ret, exitKind>>

(***************************************************************************)
(* Launch of the browser session.                                          *)
(***************************************************************************)
LaunchOutcomes(v) ==
    IF v = "github" THEN {"launch_fail", "page_fail", "ok"}
    ELSE {"launch_fail", "context_fail", "page_fail", "ok"}

Launch ==
    /\ pc = "start" /\ variant \in LoginVariants
    /\ \E o \in LaunchOutcomes(variant) :
        /\ browser' = IF variant = "github" \/ o = "launch_fail" THEN "null" ELSE "open"
        /\ context' = IF o \in {"launch_fail", "context_fail"} THEN "null" ELSE "open"
        /\ page' = IF o = "ok" THEN "open" ELSE "null"
        /\ IF o = "ok" THEN Goto("goto") ELSE Throw
    /\ UNCHANGED <<batchVars, args, obsVars, exVars, afterLoginUrl, flowVars, stepVars, dvVars, clVars, cpVars>>
    /\ UNCHANGED <<reuseVars, genVars, stealthVars, watchVars, noteVars>>

(***************************************************************************)
(* The watch on /api/user/self: every matching response overwrites         *)
(* userSelfResponse and resolves userSelfPromise.                          *)
(***************************************************************************)
ResponsePcs == {"fast_goto", "wait_self", "callback", "wait_self2", "extract"}

OnUserSelfResponse ==
    /\ pc \in ResponsePcs /\ respCount < MaxResponses
    /\ \E b \in Bodies : userSelfResponse' = b
    /\ userSelfResolved' = TRUE
    /\ respCount' = respCount + 1
    /\ UNCHANGED <<batchVars, pc, args, ret, exitKind, resVars, exVars, afterLoginUrl, flowVars, stepVars,
                   dvVars, clVars, cpVars>>
    /\ UNCHANGED <<reuseVars, genVars, stealthVars, watchVars, noteVars>>

(***************************************************************************)
(* Navigation to the login page and detection of an existing session.      *)
(***************************************************************************)
PageUrls == {"login", "register", "console", "consoleToken", "other"}

UrlIncludesConsole(u) == u \in {"console", "consoleToken"}
UrlEndsWithConsole(u) == u = "console"
OnLoginPage(v, u) == u = "login" \/ (v = "linuxdo" /\ u = "register")

DetectTarget(v, u) ==
    IF UrlIncludesConsole(u)
    THEN (IF UrlEndsWithConsole(u) THEN "wait_self" ELSE "fast_goto")
    ELSE IF OnLoginPage(v, u) THEN "dialog" ELSE "extract"

\* page.goto(baseUrl + '/login'), then currentPageUrl = page.url()
GotoLogin ==
    /\ pc = "goto"
    /\ \E ok \in BOOLEAN, u \in PageUrls :
        IF ok
        THEN landed' = u /\ Goto(DetectTarget(variant, u))
        ELSE landed' = landed /\ Throw
    /\ UNCHANGED <<batchVars, args, resVars, obsVars, exVars, afterLoginUrl, stepVars, waited,
                   popupWatch, activePage, popupEvent, dvVars, clVars, cpVars>>
    /\ UNCHANGED <<reuseVars, genVars, stealthVars, watchVars, noteVars>>

FastGoto ==
    /\ pc = "fast_goto"
    /\ \E ok \in BOOLEAN : IF ok THEN Goto("wait_self") ELSE Throw
    /\ UNCHANGED <<batchVars, args, resVars, obsVars, exVars, afterLoginUrl, flowVars, stepVars, dvVars, clVars, cpVars>>
    /\ UNCHANGED <<reuseVars, genVars, stealthVars, watchVars, noteVars>>

\* Promise.race([userSelfPromise, 10 s timer]): ends with true when the promise
\* is resolved and with false on the timer; either way the run goes on.
\* a flow that would go through the login steps whatever the first page was
AfterFastPathAlwaysLogin(v, u) == "dialog"

\* after the console branch the login block is tested on the same URL again:
\* if (currentPageUrl.includes('/login')) { ... }
AfterFastPath(v, u) == IF OnLoginPage(v, u) THEN "dialog" ELSE "extract"

\* the wait of the console branch
WaitUserSelf ==
    /\ pc = "wait_self"
    /\ waited' = TRUE
    /\ Goto(AfterFastPath(variant, landed))
    /\ UNCHANGED <<batchVars, args, resVars, obsVars, exVars, afterLoginUrl, stepVars, landed,
                   popupWatch, activePage, popupEvent, dvVars, clVars, cpVars>>
    /\ UNCHANGED <<reuseVars, genVars, stealthVars, watchVars, noteVars>>

\* the wait at the end of the login block
WaitUserSelf2 ==
    /\ pc = "wait_self2"
    /\ waited' = TRUE
    /\ Goto("extract")
    /\ UNCHANGED <<batchVars, args, resVars, obsVars, exVars, afterLoginUrl, stepVars, landed,
                   popupWatch, activePage, popupEvent, dvVars, clVars, cpVars>>
    /\ UNCHANGED <<reuseVars, genVars, stealthVars, watchVars, noteVars>>

(***************************************************************************)
(* Third-party login.                                                      *)
(***************************************************************************)
DismissAnnouncement ==
    /\ pc = "dialog"
    /\ \E visible \in BOOLEAN, reloadOk \in BOOLEAN :
        IF visible \/ reloadOk THEN Goto("click") ELSE Throw
    /\ UNCHANGED <<batchVars, args, resVars, obsVars, exVars, afterLoginUrl, flowVars, stepVars, dvVars, clVars, cpVars>>
    /\ UNCHANGED <<reuseVars, genVars, stealthVars, watchVars, noteVars>>

PopupUrls == {"providerLogin", "oauthAuthorize", "other"}

AfterPopup(v, u) ==
    IF v = "linuxdo" THEN "ld_login"
    ELSE IF u = "providerLogin" THEN "creds" ELSE "callback"

\* a flow that would start to wait for the new page only after the click
WatchAfterClick == FALSE

\* const newPagePromise = context.waitForEvent('page') stands in front of
\* await button.click()
WatchBeforeClick == TRUE

\* the statement in front of the click
RegisterPopupWatch ==
    /\ pc = "click"
    /\ popupWatch' = WatchBeforeClick
    /\ Goto("clicking")
    /\ UNCHANGED <<batchVars, args, resVars, obsVars, exVars, afterLoginUrl, stepVars, landed, waited,
                   activePage, popupEvent, dvVars, clVars, cpVars>>
    /\ UNCHANGED <<reuseVars, genVars, stealthVars, watchVars, noteVars>>

\* when the provider opens the new page: before click() has returned, after
\* it, or not at all
PopupOpens == {"immediately", "later", "never"}

\* a page event reaches the flow when waitForEvent was pending as it fired
PopupDelivered(opens, watching) ==
    opens = "later" \/ (opens = "immediately" /\ watching)

\* what became of the page event: it reached the flow (when it fired), it
\* fired unheard, or there was none
PopupEventOf(opens, watching) ==
    IF opens = "never" THEN "never"
    ELSE IF PopupDelivered(opens, watching) THEN opens ELSE "lost"

\* button.click(), newPage = await newPagePromise, newPage.waitForLoadState,
\* page = newPage; a page event nobody waited for is gone, and the wait that
\* starts afterwards runs into its timeout
ClickConsent ==
    /\ pc = "clicking"
    /\ \E clickOk \in BOOLEAN, opens \in PopupOpens, loadOk \in BOOLEAN, u \in PopupUrls :
        IF ~clickOk
        THEN UNCHANGED <<popupWatch, activePage, popupEvent>> /\ Throw
        ELSE /\ popupWatch' = FALSE
             /\ popupEvent' = PopupEventOf(opens, popupWatch)
             /\ IF PopupDelivered(opens, popupWatch) /\ loadOk
                THEN activePage' = "popup" /\ Goto(AfterPopup(variant, u))
                ELSE activePage' = activePage /\ Throw
    /\ UNCHANGED <<batchVars, args, resVars, obsVars, exVars, afterLoginUrl, stepVars, landed, waited,
                   dvVars, clVars, cpVars>>
    /\ UNCHANGED <<reuseVars, genVars, stealthVars, watchVars, noteVars>>

AfterLoginUrls == {"twoFactor", "verifiedDevice", "oauthAuthorize", "other"}

AfterCredentials(u) ==
    CASE u = "twoFactor" -> "twofa"
      [] u = "verifiedDevice" -> "dv_register"
      [] OTHER -> "callback"

Credentials ==
    /\ pc = "creds"
    /\ \E ok \in BOOLEAN, u \in AfterLoginUrls :
        IF ok
        THEN /\ afterLoginUrl' = (IF AfterCredentials(u) = "callback" THEN "none" ELSE u)
             /\ Goto(AfterCredentials(u))
        ELSE afterLoginUrl' = afterLoginUrl /\ Throw
    /\ UNCHANGED <<batchVars, args, resVars, obsVars, exVars, flowVars, stepVars, dvVars, clVars, cpVars>>
    /\ UNCHANGED <<reuseVars, genVars, stealthVars, watchVars, noteVars>>

\* after a passed two-factor challenge the device check still reads afterLoginUrl
AfterTwoFactor(u) == IF u = "verifiedDevice" THEN "dv_register" ELSE "callback"

\* a block that would compute and type a code also without a secret
SecretMissingNever(secret) == FALSE

\* if (!twofaSecret)
SecretMissing(secret) == secret = "none"

\* how the two-factor block can go once the code is computed: the #app_totp
\* field never shows, a later click or wait throws, or the block gets to its end
TotpSteps == {"no_field", "typed_then_threw", "done"}

\* page.url() at the end of the block
FinalTotpUrls == {"twoFactor", "login", "verifiedDevice", "oauthAuthorize", "other"}

\* a test that would look for the two-factor page only
TotpRejectedTwoFactorOnly(u) == u = "twoFactor"

\* finalTotpUrl.includes('/sessions/two-factor') || finalTotpUrl.includes('/login')
TotpRejected(u) == u \in {"twoFactor", "login"}

\* the block of the two-factor page
TwoFactor ==
    /\ pc = "twofa"
    /\ IF SecretMissing(args.twofaSecret)
       THEN /\ Return(NullResult, "early")
            /\ UNCHANGED <<totp, finalTotpUrl>>
       ELSE \E step \in TotpSteps, final \in FinalTotpUrls :
               CASE step = "no_field" ->
                      totp' = "computed" /\ finalTotpUrl' = finalTotpUrl /\ Throw
                 [] step = "typed_then_threw" ->
                      totp' = "typed" /\ finalTotpUrl' = finalTotpUrl /\ Throw
                 [] OTHER ->
                      /\ totp' = "typed"
                      /\ finalTotpUrl' = final
                      /\ IF TotpRejected(final)
                         THEN Return(NullResult, "early")
                         ELSE Goto(AfterTwoFactor(afterLoginUrl))
    /\ UNCHANGED <<batchVars, args, resVars, obsVars, exVars, afterLoginUrl, flowVars,
                   consent, dvVars, clVars, cpVars>>
    /\ UNCHANGED <<reuseVars, genVars, stealthVars, watchVars, noteVars>>

\* how the LinuxDo login can go: the login page or the authorize page never
\* shows, the approve link never shows, the click on it throws, or it is clicked
LinuxDoSteps == {"no_login", "no_authorize", "no_approve", "click_threw", "clicked"}

\* what became of the approve link
LinuxDoConsent(step) ==
    CASE step = "no_approve" -> "absent"
      [] step = "click_threw" -> "unclicked"
      [] step = "clicked" -> "clicked"
      [] OTHER -> "none"

\* credentials, waitForURL('**/oauth2/authorize**'),
\* waitForSelector('a[href*="/oauth2/approve/"]'), allowButton.click()
LinuxDoLogin ==
    /\ pc = "ld_login"
    /\ \E step \in LinuxDoSteps :
        /\ consent' = LinuxDoConsent(step)
        /\ IF step = "clicked" THEN Goto("callback") ELSE Throw
    /\ UNCHANGED <<batchVars, args, resVars, obsVars, exVars, afterLoginUrl, flowVars,
                   totp, finalTotpUrl, dvVars, clVars, cpVars>>
    /\ UNCHANGED <<reuseVars, genVars, stealthVars, watchVars, noteVars>>

\* the GitHub runner has no statement that looks for or clicks the provider's
\* approve button: a button that is there stays unclicked
GitHubConsent(shown) == IF shown THEN "unclicked" ELSE "absent"

\* finalUrl = page.url(): with an approve button left unclicked the provider
\* does not redirect back
FinalUrls(c) ==
    IF c = "unclicked" THEN {"other"} ELSE {"consoleToken", "console", "other"}

\* wait for the redirect back, read finalUrl, go to /console from /console/token
Callback ==
    /\ pc = "callback"
    /\ \E ok \in BOOLEAN, shown \in BOOLEAN :
        LET c == IF variant = "github" THEN GitHubConsent(shown) ELSE consent
        IN  /\ consent' = c
            /\ \E u \in FinalUrls(c) :
                 IF u = "consoleToken" /\ ~ok THEN Throw ELSE Goto("wait_self2")
    /\ UNCHANGED <<batchVars, args, resVars, obsVars, exVars, afterLoginUrl, flowVars,
                   totp, finalTotpUrl, dvVars, clVars, cpVars>>
    /\ UNCHANGED <<reuseVars, genVars, stealthVars, watchVars, noteVars>>


(***************************************************************************)
(* Device verification (GitHub): register a pending verification, notify,  *)
(* then poll the record until a code is there or the time is up.           *)
(***************************************************************************)
DvPcs == {"dv_otp", "dv_loop", "dv_fetch", "dv_sleep", "dv_fill"}

\* the human operator types a code into the admin page
OperatorSetsCode ==
    /\ pc \in DvPcs /\ storeCode = <<>>
    /\ \E c \in Codes : storeCode' = c
    /\ setAt' = now
    /\ goodFetchSinceSet' = FALSE /\ failedFetchSinceSet' = FALSE
    /\ UNCHANGED <<batchVars, pc, args, ret, exitKind, resVars, obsVars, exVars,
                   afterLoginUrl, flowVars, stepVars, clVars, cpVars, now, expireTime, maxPollingTime, startTime,
                   deviceCodeFilled, observed, dvOutcome, fillCount, filledValue,
                   filledAt, fetchCount, fetchesAfterObserve, expiredReports, expiredAt>>
    /\ UNCHANGED <<reuseVars, genVars, stealthVars, watchVars, noteVars>>

\* what a call of the record store can do: answer with success, answer with a
\* failure, or throw
StoreAnswers == {"ok", "rejected", "throw"}

\* const emailTo = noticeEmail || process.env.EMAIL_TO
EmailTo(arg, env) ==
    IF arg # "none" THEN "arg" ELSE IF env THEN "env" ELSE "none"

\* sendEmail: sent, thrown for a missing EMAIL_USER or EMAIL_PASS, or thrown by
\* the transport
MailResults == {"sent", "no_config", "transport_error"}

\* if (emailTo) { await notifier.sendEmail(...) } else { skip }
NoticeOutcome(to, mail) == IF to = "none" THEN "skipped" ELSE mail

\* a notice whose failure would end the run
AfterNoticeAbortsOnFailure(n) ==
    IF n \in {"no_config", "transport_error"} THEN "finally" ELSE "dv_otp"

\* catch (emailError) { log }: whatever became of the notice, the flow goes on
\* to the wait for the #otp field
AfterNotice(n) == "dv_otp"

\* addAccountLoginInfo, then the best-effort notice mail
RegisterVerification ==
    /\ pc = "dv_register"
    /\ \E o \in StoreAnswers, off \in ExpireOffsets, env \in BOOLEAN, mail \in MailResults :
        CASE o = "ok" ->
               /\ expireTime' = now + off
               /\ dvOutcome' = "Registered"
               /\ registered' = "ok"
               /\ emailTo' = EmailTo(args.noticeEmail, env)
               /\ notice' = NoticeOutcome(emailTo', mail)
               /\ Goto(AfterNotice(notice'))
          [] o = "rejected" ->
               /\ UNCHANGED <<expireTime, dvOutcome, emailTo, notice>>
               /\ registered' = "rejected"
               /\ Return(NullResult, "early")
          [] OTHER ->
               /\ UNCHANGED <<expireTime, dvOutcome, emailTo, notice>>
               /\ registered' = "threw"
               /\ Throw
    /\ UNCHANGED <<batchVars, args, resVars, obsVars, exVars, afterLoginUrl, flowVars, stepVars, clVars, cpVars,
                   now, maxPollingTime, startTime, storeCode, deviceCodeFilled, observed,
                   setAt, fillCount, filledValue, filledAt, fetchCount,
                   fetchesAfterObserve, expiredReports, expiredAt, goodFetchSinceSet,
                   failedFetchSinceSet>>
    /\ UNCHANGED <<reuseVars, genVars, stealthVars, watchVars, lastFetch>>

\* time the mail and the wait for the #otp field can take
SetupDelays == {0, 1000}

\* waitForSelector('#otp'), then maxPollingTime and startTime are read off the
\* clock one after the other; the try block of the mail has ended, and emailTo
\* with it
WaitOtpField ==
    /\ pc = "dv_otp"
    /\ \E ok \in BOOLEAN, d \in SetupDelays, skew \in 0..MaxSkew :
        IF ok
        THEN /\ maxPollingTime' = expireTime - (now + d)
             /\ startTime' = now + d + skew
             /\ now' = now + d + skew
             /\ dvOutcome' = "Polling"
             /\ Goto("dv_loop")
        ELSE /\ now' = now + d
             /\ dvOutcome' = "Cancelled"
             /\ UNCHANGED <<maxPollingTime, startTime>>
             /\ Throw
    /\ UNCHANGED <<batchVars, args, resVars, obsVars, exVars, afterLoginUrl, flowVars, stepVars, clVars, cpVars,
                   expireTime, storeCode, deviceCodeFilled, observed, setAt, fillCount,
                   filledValue, filledAt, fetchCount, fetchesAfterObserve,
                   expiredReports, expiredAt, goodFetchSinceSet, failedFetchSinceSet>>
    /\ emailTo' = "none" /\ notice' = "none"
    /\ UNCHANGED <<reuseVars, genVars, stealthVars, watchVars, registered, lastFetch>>

\* a loop without a deadline
LoopGuardForever(t, st, mx) == TRUE

\* a loop that would give up after one polling interval, whatever the deadline
LoopGuardOneInterval(t, st, mx) == t - st < PollingInterval

\* while (Date.now() - startTime < maxPollingTime)
LoopGuard(t, st, mx) == t - st < mx

\* the loop test; when it passes, getAccountLoginInfo is called
PollLoop ==
    /\ pc = "dv_loop"
    /\ IF LoopGuard(now, startTime, maxPollingTime) THEN Goto("dv_fetch") ELSE Goto("dv_exit")
    /\ UNCHANGED <<batchVars, args, resVars, obsVars, exVars, afterLoginUrl, flowVars, stepVars, clVars, cpVars, dvVars>>
    /\ UNCHANGED <<reuseVars, genVars, stealthVars, watchVars, noteVars>>

\* a presence test that would turn down a code with whitespace around it
CodePresentUntrimmedOnly(code) == code # <<>> /\ Trim(code) = code

\* loginInfo.github_device_code && loginInfo.github_device_code.trim() !== ''
CodePresent(code) == code # <<>> /\ Trim(code) # <<>>

\* getAccountLoginInfo throws, answers without success, answers without data,
\* or answers with the record
FetchResults == {"throw", "fail", "nodata", "data"}

\* the answer of getAccountLoginInfo and the presence test on it
PollFetch ==
    /\ pc = "dv_fetch"
    /\ \E lat \in {0, MaxLatency}, res \in FetchResults :
        /\ now' = now + lat
        /\ fetchCount' = fetchCount + 1
        /\ lastFetch' = res
        /\ fetchesAfterObserve' = fetchesAfterObserve + (IF deviceCodeFilled THEN 1 ELSE 0)
        /\ goodFetchSinceSet' = (goodFetchSinceSet \/ (res = "data" /\ setAt # NoTime))
        /\ failedFetchSinceSet' = (failedFetchSinceSet \/ (res # "data" /\ setAt # NoTime))
        /\ IF res = "throw"
           THEN /\ dvOutcome' = "Cancelled"
                /\ UNCHANGED <<deviceCodeFilled, observed>>
                /\ Throw
           ELSE IF res = "data" /\ CodePresent(storeCode)
           THEN /\ deviceCodeFilled' = TRUE
                /\ observed' = storeCode
                /\ dvOutcome' = "Filled"
                /\ Goto("dv_fill")
           ELSE /\ UNCHANGED <<deviceCodeFilled, observed, dvOutcome>>
                /\ Goto("dv_sleep")
    /\ UNCHANGED <<batchVars, args, resVars, obsVars, exVars, afterLoginUrl, flowVars, stepVars, clVars, cpVars,
                   expireTime, maxPollingTime, startTime, storeCode, setAt, fillCount,
                   filledValue, filledAt, expiredReports, expiredAt>>
    /\ UNCHANGED <<reuseVars, genVars, stealthVars, watchVars, registered, emailTo, notice>>

\* a fill that would strip the whitespace around the code
FillValueTrimmed(code) == Trim(code)

\* otpInput.fill(loginInfo.github_device_code)
FillValue(code) == code

\* a loop that would go on polling after the fill
AfterFillKeepsPolling == "dv_sleep"

\* break
AfterFillPc == "dv_exit"

\* click the field, wait, fill it, wait, leave the loop
FillCode ==
    /\ pc = "dv_fill"
    /\ \E ok \in BOOLEAN, d \in RandomDelays(FillDelayMin, FillDelayMax) :
        IF ok
        THEN /\ now' = now + d
             /\ filledValue' = FillValue(observed)
             /\ filledAt' = now + d
             /\ fillCount' = fillCount + 1
             /\ Goto(AfterFillPc)
        ELSE /\ UNCHANGED <<now, filledValue, filledAt, fillCount>>
             /\ Throw
    /\ UNCHANGED <<batchVars, args, resVars, obsVars, exVars, afterLoginUrl, flowVars, stepVars, clVars, cpVars,
                   expireTime, maxPollingTime, startTime, storeCode, deviceCodeFilled,
                   observed, dvOutcome, setAt, fetchCount, fetchesAfterObserve,
                   expiredReports, expiredAt, goodFetchSinceSet, failedFetchSinceSet>>
    /\ UNCHANGED <<reuseVars, genVars, stealthVars, watchVars, noteVars>>

\* randomDelay(pollingInterval, pollingInterval + 500)
PollSleep ==
    /\ pc = "dv_sleep"
    /\ \E d \in RandomDelays(PollingInterval, PollingInterval + PollJitter) : now' = now + d
    /\ lastFetch' = "none"
    /\ Goto("dv_loop")
    /\ UNCHANGED <<batchVars, args, resVars, obsVars, exVars, afterLoginUrl, flowVars, stepVars, clVars, cpVars,
                   expireTime, maxPollingTime, startTime, storeCode, deviceCodeFilled,
                   observed, dvOutcome, setAt, fillCount, filledValue, filledAt,
                   fetchCount, fetchesAfterObserve, expiredReports, expiredAt,
                   goodFetchSinceSet, failedFetchSinceSet>>
    /\ UNCHANGED <<reuseVars, genVars, stealthVars, watchVars, registered, emailTo, notice>>

\* the block-scoped state of the device verification ends with the block
LeaveVerification ==
    /\ now' = 0 /\ expireTime' = 0 /\ maxPollingTime' = 0 /\ startTime' = 0
    /\ storeCode' = <<>> /\ deviceCodeFilled' = FALSE /\ observed' = <<>>
    /\ setAt' = NoTime /\ fillCount' = 0 /\ filledValue' = <<>> /\ filledAt' = NoTime
    /\ fetchCount' = 0 /\ fetchesAfterObserve' = 0
    /\ goodFetchSinceSet' = FALSE /\ failedFetchSinceSet' = FALSE

\* a loop exit that would go on to the callback without a code
GivesUpNever(filled) == FALSE

\* if (!deviceCodeFilled)
GivesUp(filled) == ~filled

\* if (!deviceCodeFilled) return null; otherwise wait and go on to the callback
PollExit ==
    /\ pc = "dv_exit"
    /\ IF ~GivesUp(deviceCodeFilled)
       THEN /\ Goto("callback")
            /\ afterLoginUrl' = "none"
            /\ LeaveVerification
            /\ UNCHANGED <<dvOutcome, expiredReports, expiredAt>>
       ELSE /\ dvOutcome' = "Expired"
            /\ expiredReports' = expiredReports + 1
            /\ expiredAt' = now
            /\ Return(NullResult, "early")
            /\ UNCHANGED <<afterLoginUrl, now, expireTime, maxPollingTime, startTime,
                           storeCode, deviceCodeFilled, observed, setAt, fillCount,
                           filledValue, filledAt, fetchCount, fetchesAfterObserve,
                           goodFetchSinceSet, failedFetchSinceSet>>
    /\ UNCHANGED <<batchVars, args, resVars, obsVars, exVars, flowVars, stepVars, clVars, cpVars>>
    /\ UNCHANGED <<reuseVars, genVars, stealthVars, watchVars, noteVars>>

(***************************************************************************)
(* Extraction of the user id and the session cookie.                       *)
(***************************************************************************)
\* userData.id ? String(userData.id) : null
ApiUserOf(id) == IF Truthy(id) THEN ToJSString(id) ELSE JSNull

\* an extraction that would always go to localStorage
IdFromStorageFirst(resp) == "storage"

\* if (userSelfResponse && userSelfResponse.data) ... else ...
IdFrom(resp) == IF resp.kind = "data" THEN "response" ELSE "storage"

\* the id extraction works with: the captured response when it has data,
\* otherwise the user object of localStorage
UserIdSource(resp, lu) ==
    IF IdFrom(resp) = "response" THEN resp.id
    ELSE IF lu.kind = "object" THEN lu.id ELSE JSUndef

\* a result test that would settle for one of the two
CompleteResultEither(sc, au, info) ==
    IF Truthy(sc) \/ Truthy(au)
    THEN [nonNull |-> TRUE, session |-> sc, apiUser |-> au, userInfo |-> info]
    ELSE NullResult

\* if (sessionCookie && apiUser) return {session, apiUser, userInfo}; else return null
CompleteResult(sc, au, info) ==
    IF Truthy(sc) /\ Truthy(au)
    THEN [nonNull |-> TRUE, session |-> sc, apiUser |-> au, userInfo |-> info]
    ELSE NullResult

Extract ==
    /\ pc = "extract"
    /\ \E lu \in LocalUsers, evalOk \in BOOLEAN, cookiesOk \in BOOLEAN, ck \in CookieValues :
        LET id == UserIdSource(userSelfResponse, lu)
            au == ApiUserOf(id)
            res == CompleteResult(ck, au, id)
        IN  IF IdFrom(userSelfResponse) = "storage" /\ ~evalOk
            THEN Throw /\ UNCHANGED exVars
            ELSE IF ~cookiesOk
            THEN Throw /\ apiUser' = au /\ idSource' = IdFrom(userSelfResponse)
                 /\ UNCHANGED sessionCookie
            ELSE /\ sessionCookie' = ck
                 /\ apiUser' = au
                 /\ idSource' = IdFrom(userSelfResponse)
                 /\ Return(res, IF res.nonNull THEN "success" ELSE "incomplete")
    /\ UNCHANGED <<batchVars, args, resVars, obsVars, afterLoginUrl, flowVars, stepVars, dvVars, clVars, cpVars>>
    /\ UNCHANGED <<reuseVars, genVars, stealthVars, watchVars, noteVars>>

(***************************************************************************)
(* Cleanup: the closes of one cleanup sit in one try block, in order; the  *)
(* first one that throws ends the block.                                   *)
(***************************************************************************)
CloseOrder(v) ==
    IF v = "github" THEN <<"strip", "page", "context">>
    ELSE <<"page", "context", "browser">>

\* the guards in front of each step
StepApplies(step) ==
    CASE step = "strip" -> baseUrl = "agentrouter.org" /\ context # "null"
      [] step = "page" -> page \in {"open", "failed"}
      [] step = "context" -> context # "null"
      [] step = "browser" -> browser # "null"

RECURSIVE StepsAttempted(_, _, _)
StepsAttempted(order, appl, failAt) ==
    IF order = <<>> THEN {}
    ELSE IF Head(order) \notin appl THEN StepsAttempted(Tail(order), appl, failAt)
    ELSE IF Head(order) = failAt THEN {failAt}
    ELSE {Head(order)} \cup StepsAttempted(Tail(order), appl, failAt)

\* a resource after the cleanup: closed when its close, or the close of what
\* holds it, went through; failed when its own close threw (what is left of it
\* is not known); untouched otherwise
AfterCleanup(old, own, closedBy, closed, failAt) ==
    IF old \in {"open", "failed"} /\ closed \cap closedBy # {} THEN "closed"
    ELSE IF old = "open" /\ failAt = own THEN "failed"
    ELSE old

\* a filter that would take the cookies of every domain for the target's
AgentRouterCookiesAll(cookies) == cookies

\* allCookies.filter((cookie) => cookie.domain.includes('agentrouter.org'))
AgentRouterCookies(cookies) ==
    {d \in cookies : d \in {"agentrouter.org", ".agentrouter.org"}}

\* the calls of the cookie strip that can throw: context.cookies(), then
\* clearCookies() when there is something to clear, then addCookies(others)
\* when there is something to put back
StripCalls(cookies) ==
    {"cookies"}
    \cup (IF AgentRouterCookies(cookies) # {} THEN {"clear"} ELSE {})
    \cup (IF AgentRouterCookies(cookies) # {} /\ cookies \ AgentRouterCookies(cookies) # {}
          THEN {"add"} ELSE {})

\* the cookies of the context after the strip; threwAt is the call that threw,
\* "none" when the strip went through
CookiesAfterStrip(cookies, threwAt) ==
    CASE threwAt \in {"cookies", "clear"} -> cookies
      [] threwAt = "add" -> {}
      [] OTHER -> cookies \ AgentRouterCookies(cookies)

\* the steps whose resource is closed already: a close of them is a no-op
\* that does not throw
ClosedAlready ==
    (IF page = "closed" THEN {"page"} ELSE {})
    \cup (IF context = "closed" THEN {"context"} ELSE {})
    \cup (IF browser = "closed" THEN {"browser"} ELSE {})

\* one pass through the try block of a cleanup; the changer's cleanup sets its
\* three fields to null when every close went through
RunCleanup(order, resets) ==
    LET appl == {order[k] : k \in {j \in 1..Len(order) : StepApplies(order[j])}}
    IN  \E failAt \in (appl \ ClosedAlready) \cup {"none"} :
        \E threwAt \in (IF failAt = "strip" THEN StripCalls(allCookies) ELSE {"none"}) :
            LET tried == StepsAttempted(order, appl, failAt)
                closed == tried \ {failAt}
                drop == resets /\ failAt = "none"
            IN  /\ page' = IF drop THEN "null"
                           ELSE AfterCleanup(page, "page", {"page", "context", "browser"},
                                             closed, failAt)
                /\ context' = IF drop THEN "null"
                              ELSE AfterCleanup(context, "context", {"context", "browser"},
                                                closed, failAt)
                /\ browser' = IF drop THEN "null"
                              ELSE AfterCleanup(browser, "browser", {"browser"}, closed,
                                                failAt)
                /\ cookiesLeft' = IF "strip" \in appl
                                  THEN CookiesAfterStrip(allCookies, threwAt)
                                  ELSE allCookies
                /\ allCookies' = allCookies
                /\ IF cleanupRan
                   THEN /\ againRan' = TRUE
                        /\ reclosed' = tried \cap ClosedAlready
                        /\ UNCHANGED <<cleanupRan, closeDue, closeTried>>
                   ELSE /\ closeDue' = appl \cap {"page", "context", "browser"}
                        /\ closeTried' = tried
                        /\ cleanupRan' = TRUE
                        /\ UNCHANGED <<againRan, reclosed>>

Cleanup ==
    /\ pc = "finally" /\ variant \in LoginVariants
    /\ RunCleanup(CloseOrder(variant), FALSE)
    /\ Goto("returned")
    /\ UNCHANGED <<batchVars, args, obsVars, exVars, afterLoginUrl, flowVars, stepVars, dvVars, cpVars>>
    /\ UNCHANGED <<reuseVars, genVars, stealthVars, watchVars, noteVars>>

SessionOpen == page = "open" \/ context = "open" \/ browser = "open"

(***************************************************************************)
(* executeSingleChangePassword: initialize, changePassword, report the     *)
(* outcome to the record store, cleanup.                                   *)
(***************************************************************************)
InitOutcomes == {"launch_fail", "context_fail", "page_fail", "ok"}

\* how a call of updatePasswordChange can end: it answers success: true, it
\* answers success: false, or it throws
UploadResults == {"ok", "failed", "threw"}

\* an upload that throws inside the try block is caught by catch (error)
UploadThrew(up) == up = "threw"

\* the value of executeSingleChangePassword: the return statement of the
\* branch when its upload came back, the one of the catch block when the upload
\* threw; when the upload of the catch block throws as well the call rejects
\* after the finally block
SingleResult(branch, up, up2) ==
    IF ~UploadThrew(up) THEN branch
    ELSE IF up2 = "threw" THEN [success |-> FALSE, message |-> "rejected"]
    ELSE [success |-> FALSE, message |-> "exception"]

\* the calls of updatePasswordChange the run makes: the one of the branch,
\* and after a throw the one of the catch block, with status 3
UploadCalls(status, up, up2) ==
    IF ~UploadThrew(up) THEN <<[status |-> status, outcome |-> up]>>
    ELSE <<[status |-> status, outcome |-> up], [status |-> 3, outcome |-> up2]>>

\* changer.initialize(), and the report of a failed initialization
ChangerInitialize ==
    /\ pc = "cp_init"
    /\ \E o \in InitOutcomes :
        /\ browser' = IF o = "launch_fail" THEN "null" ELSE "open"
        /\ context' = IF o \in {"launch_fail", "context_fail"} THEN "null" ELSE "open"
        /\ page' = IF o = "ok" THEN "open" ELSE "null"
        /\ IF o = "ok"
           THEN Goto("cp_change") /\ UNCHANGED <<reported, single, uploads>>
           ELSE /\ \E up \in UploadResults, up2 \in UploadResults :
                     /\ reported' = [status |-> 3, increment_error_count |-> FALSE]
                     /\ single' = SingleResult([success |-> FALSE, message |-> "init_failed"],
                                               up, up2)
                     /\ uploads' = UploadCalls(3, up, up2)
                /\ Goto("cp_finally")
    /\ UNCHANGED <<batchVars, args, obsVars, exVars, afterLoginUrl, flowVars, stepVars, dvVars, clVars,
                   changeResult>>
    /\ UNCHANGED <<reuseVars, genVars, stealthVars, watchVars, noteVars>>

\* what a step of changePassword can end as: the navigation, and the two calls
\* made from the page (the call threw, the call itself failed, the interface
\* answered success: false, the login answer carried no id, or all went well)
GotoResults == {"ok", "timeout"}
LoginResults == {"threw", "call_failed", "rejected", "no_id", "ok"}
ChangeResults == {"threw", "call_failed", "rejected", "ok"}

\* a failure value of changePassword
ChangeFailure(kind, api) == [success |-> FALSE, is_api_error |-> api, kind |-> kind]

\* the return statements of changePassword, in the order the code reaches them
ChangePasswordResult(req, gotoR, loginR, changeR) ==
    IF req.new_username = "none" /\ req.new_password = "none"
    THEN ChangeFailure("invalid_params", FALSE)
    ELSE IF gotoR = "timeout" THEN ChangeFailure("timeout", FALSE)
    ELSE IF loginR = "threw" THEN ChangeFailure("exception", FALSE)
    ELSE IF loginR = "call_failed" THEN ChangeFailure("login_call_failed", FALSE)
    ELSE IF loginR = "rejected" THEN ChangeFailure("login_rejected", TRUE)
    ELSE IF loginR = "no_id" THEN ChangeFailure("no_user_id", FALSE)
    ELSE IF changeR = "threw" THEN ChangeFailure("exception", FALSE)
    ELSE IF changeR = "call_failed" THEN ChangeFailure("change_call_failed", FALSE)
    ELSE IF changeR = "rejected" THEN ChangeFailure("change_rejected", TRUE)
    ELSE [success |-> TRUE, is_api_error |-> FALSE, kind |-> "changed"]

ChangerChangePassword ==
    /\ pc = "cp_change"
    /\ \E gotoR \in GotoResults, loginR \in LoginResults, changeR \in ChangeResults :
        changeResult' = ChangePasswordResult(accounts[idx], gotoR, loginR, changeR)
    /\ Goto("cp_report")
    /\ UNCHANGED <<batchVars, args, resVars, obsVars, exVars, afterLoginUrl, flowVars, stepVars, dvVars,
                   clVars, reported, single, uploads>>
    /\ UNCHANGED <<reuseVars, genVars, stealthVars, watchVars, noteVars>>

\* a report that would count every failure
IncrementErrorCountAlways(cr) == TRUE

\* const isApiError = changeResult.is_api_error === true
IncrementErrorCount(cr) == cr.is_api_error = TRUE

\* updatePasswordChange with the outcome, and the value returned to the batch
ReportOutcome ==
    /\ pc = "cp_report"
    /\ \E up \in UploadResults, up2 \in UploadResults :
        IF changeResult.success
        THEN /\ reported' = [status |-> 2, increment_error_count |-> FALSE]
             /\ single' = SingleResult([success |-> TRUE, message |-> "changed"], up, up2)
             /\ uploads' = UploadCalls(2, up, up2)
        ELSE /\ reported' = [status |-> 3,
                             increment_error_count |-> IncrementErrorCount(changeResult)]
             /\ single' = SingleResult([success |-> FALSE, message |-> changeResult.kind],
                                       up, up2)
             /\ uploads' = UploadCalls(3, up, up2)
    /\ Goto("cp_finally")
    /\ UNCHANGED <<batchVars, args, resVars, obsVars, exVars, afterLoginUrl, flowVars, stepVars, dvVars,
                   clVars, changeResult>>
    /\ UNCHANGED <<reuseVars, genVars, stealthVars, watchVars, noteVars>>

\* changer.cleanup()
ChangerCleanup ==
    /\ pc = "cp_finally"
    /\ RunCleanup(<<"page", "context", "browser">>, TRUE)
    /\ Goto(IF single.message = "rejected" THEN "rejected" ELSE "returned")
    /\ UNCHANGED <<batchVars, args, obsVars, exVars, afterLoginUrl, flowVars, stepVars, dvVars, cpVars>>
    /\ UNCHANGED <<reuseVars, genVars, stealthVars, watchVars, noteVars>>

(***************************************************************************)
(* The batch runners: processAccounts and executeBatchChangePassword.      *)
(***************************************************************************)
\* the arguments processAccounts passes to loginAndGetSession
CallArgs(v, a) ==
    IF v = "github"
    THEN [accountId |-> a.account_id, username |-> a.username, password |-> a.password,
          noticeEmail |-> a.notice_email, twofaSecret |-> "none"]
    ELSE IF v = "linuxdo"
    THEN [accountId |-> 0, username |-> a.username, password |-> a.password,
          noticeEmail |-> "none", twofaSecret |-> "none"]
    ELSE NoArgs

\* a caller of the exported class that hands every field of the identity to
\* loginAndGetSession(accountId, username, password, noticeEmail, twofaSecret)
DirectArgs(a) ==
    [accountId |-> a.account_id, username |-> a.username, password |-> a.password,
     noticeEmail |-> a.notice_email, twofaSecret |-> a.twofa_secret]

DirectCall ==
    /\ bpc = "direct" /\ pc = "idle"
    /\ bpc' = "direct_await"
    /\ pc' = "start"
    /\ args' = DirectArgs(accounts[1])
    /\ UNCHANGED <<variant, baseUrl, accounts, idx, results, successCount, failedCount,
                   batchRet, runOutcome, leaked, lastDelay, delayCount, input, exitCode,
                   ret, exitKind, resVars, obsVars, exVars, afterLoginUrl, flowVars,
                   stepVars, dvVars, clVars, cpVars>>
    /\ UNCHANGED <<reuseVars, genVars, stealthVars, watchVars, noteVars>>

\* for (let i = 0; i < accounts.length; i++) { result = await run(accounts[i]) ...
BatchCall ==
    /\ bpc = "loop" /\ idx <= Len(accounts)
    /\ bpc' = "await"
    /\ pc' = IF variant = "changepw" THEN "cp_init" ELSE "start"
    /\ args' = CallArgs(variant, accounts[idx])
    /\ lastDelay' = 0
    /\ UNCHANGED <<variant, baseUrl, accounts, idx, results, successCount, failedCount,
                   batchRet, runOutcome, leaked, delayCount, input, exitCode, ret, exitKind, resVars, obsVars, exVars,
                   afterLoginUrl, flowVars, stepVars, dvVars, clVars, cpVars>>
    /\ UNCHANGED <<reuseVars, genVars, stealthVars, watchVars, noteVars>>

\* whether the run that just returned succeeded
RunSucceeded == IF variant = "changepw" THEN single.success ELSE ret.nonNull

AccountKey(v, a) == IF v = "changepw" THEN a.record_id ELSE a.username

\* an entry that would report every run as a success
EntryAlwaysSucceeded(v, a, ok) == [id |-> AccountKey(v, a), success |-> TRUE]

\* the entry pushed for an identity
Entry(v, a, ok) == [id |-> AccountKey(v, a), success |-> ok]

\* a counter that would count every run as a success
NextSuccessCountAlways(ok, c) == c + 1

\* if (result.success) successCount++
NextSuccessCount(ok, c) == IF ok THEN c + 1 ELSE c

\* else failedCount++
NextFailedCount(ok, c) == IF ok THEN c ELSE c + 1

\* the run has returned: push its entry, count it, and release the run's locals
BatchPush ==
    /\ bpc = "await" /\ pc = "returned"
    /\ results' = Append(results, Entry(variant, accounts[idx], RunSucceeded))
    /\ runOutcome' = Append(runOutcome, RunSucceeded)
    /\ IF variant = "changepw"
       THEN /\ successCount' = NextSuccessCount(RunSucceeded, successCount)
            /\ failedCount' = NextFailedCount(RunSucceeded, failedCount)
       ELSE UNCHANGED <<successCount, failedCount>>
    /\ leaked' = leaked + (IF SessionOpen THEN 1 ELSE 0)
    /\ IF idx < Len(accounts)
       THEN bpc' = "delay" /\ idx' = idx
       ELSE bpc' = "loop" /\ idx' = idx + 1
    /\ pc' = "idle" /\ args' = NoArgs /\ ret' = NullResult /\ exitKind' = "none"
    /\ browser' = "null" /\ context' = "null" /\ page' = "null"
    /\ userSelfResponse' = NoBody /\ userSelfResolved' = FALSE /\ respCount' = 0
    /\ sessionCookie' = JSNull /\ apiUser' = JSNull /\ idSource' = "none"
    /\ afterLoginUrl' = "none"
    /\ landed' = "none" /\ waited' = FALSE /\ popupWatch' = FALSE
    /\ activePage' = "main" /\ popupEvent' = "none"
    /\ totp' = "none" /\ finalTotpUrl' = "none" /\ consent' = "none"
    /\ registered' = "none" /\ emailTo' = "none" /\ notice' = "none" /\ lastFetch' = "none"
    /\ now' = 0 /\ expireTime' = 0 /\ maxPollingTime' = 0 /\ startTime' = 0
    /\ storeCode' = <<>> /\ deviceCodeFilled' = FALSE /\ observed' = <<>>
    /\ dvOutcome' = "none"
    /\ setAt' = NoTime /\ fillCount' = 0 /\ filledValue' = <<>> /\ filledAt' = NoTime
    /\ fetchCount' = 0 /\ fetchesAfterObserve' = 0
    /\ expiredReports' = 0 /\ expiredAt' = NoTime
    /\ goodFetchSinceSet' = FALSE /\ failedFetchSinceSet' = FALSE
    /\ cleanupRan' = FALSE /\ closeDue' = {} /\ closeTried' = {}
    /\ allCookies' = allCookies /\ cookiesLeft' = allCookies
    /\ againRan' = FALSE /\ reclosed' = {}
    /\ changeResult' = NoChange /\ reported' = NoReport /\ single' = NoSingle /\ uploads' = <<>>
    /\ UNCHANGED <<variant, baseUrl, accounts, batchRet, lastDelay, delayCount, input,
                   exitCode>>
    /\ UNCHANGED <<reuseVars, genVars, stealthVars, watchVars>>

\* notify.js randomDelay: Math.floor(Math.random() * 5000) + 5000
BatchRandomDelay(r) == ((r * BatchDelaySpan) \div RandScale) + BatchDelayBase

\* delays that would start at zero
InterAccountDelaysFromZero(v) == {0, AccountDelayMin}

\* the delays a runner can sleep between two identities
InterAccountDelays(v) ==
    IF v = "changepw"
    THEN {BatchRandomDelay(r) : r \in RandomUnits}
    ELSE RandomDelays(AccountDelayMin, AccountDelayMax)

\* if (i < accounts.length - 1) await randomDelay(...)
BatchDelay ==
    /\ bpc = "delay"
    /\ \E d \in InterAccountDelays(variant) : lastDelay' = d
    /\ delayCount' = delayCount + 1
    /\ idx' = idx + 1
    /\ bpc' = "loop"
    /\ UNCHANGED <<variant, baseUrl, accounts, results, successCount, failedCount,
                   batchRet, runOutcome, leaked, input, exitCode, pc, args, ret, exitKind,
                   resVars, obsVars, exVars, afterLoginUrl, flowVars, stepVars, dvVars, clVars, cpVars>>
    /\ UNCHANGED <<reuseVars, genVars, stealthVars, watchVars, noteVars>>

\* return results / return {total, success, failed, results}
BatchReturn ==
    /\ bpc = "loop" /\ idx > Len(accounts)
    /\ bpc' = "done"
    /\ batchRet' = [done |-> TRUE, total |-> Len(accounts), success |-> successCount,
                    failed |-> failedCount]
    /\ UNCHANGED <<variant, baseUrl, accounts, idx, results, successCount, failedCount,
                   runOutcome, leaked, lastDelay, delayCount, input, exitCode, pc, args,
                   ret, exitKind, resVars, obsVars, exVars, afterLoginUrl, flowVars, stepVars, dvVars, clVars,
                   cpVars>>
    /\ UNCHANGED <<reuseVars, genVars, stealthVars, watchVars, noteVars>>

\* executeSingleChangePassword rejected: the loop of
\* executeBatchChangePassword has no try block, so the batch rejects with it
BatchRejects ==
    /\ bpc = "await" /\ pc = "rejected"
    /\ bpc' = "rejected"
    /\ UNCHANGED <<variant, baseUrl, accounts, idx, results, successCount, failedCount,
                   batchRet, runOutcome, leaked, lastDelay, delayCount, input, exitCode, pc, args,
                   ret, exitKind, resVars, obsVars, exVars, afterLoginUrl, flowVars, stepVars, dvVars, clVars,
                   cpVars>>
    /\ UNCHANGED <<reuseVars, genVars, stealthVars, watchVars, noteVars>>

(***************************************************************************)
(* The command line entry of the change-password batch.                    *)
(***************************************************************************)
\* validateAccountData: the three required fields, and one of the new ones
ValidateAccountData(data) ==
    /\ data.record_id # 0 /\ data.old_username # 0 /\ data.old_password # 0
    /\ (data.new_username # "none" \/ data.new_password # "none")

\* an entry that would validate the first request only
InputAcceptedFirstOnly(in, list) ==
    /\ in = "list"
    /\ Len(list) # 0
    /\ ValidateAccountData(list[1])

\* whether main gets as far as executeBatchChangePassword
InputAccepted(in, list) ==
    /\ in = "list"
    /\ Len(list) # 0
    /\ \A k \in 1..Len(list) : ValidateAccountData(list[k])

\* an exit code that would ignore the failed identities
ExitCodeAlwaysZero(failed) == 0

\* process.exit(1) if result.failed > 0, process.exit(0) otherwise
ExitCodeOf(failed) == IF failed > 0 THEN 1 ELSE 0

mainUnchanged == <<variant, baseUrl, accounts, idx, results, successCount, failedCount,
                   batchRet, runOutcome, leaked, lastDelay, delayCount, input, pc, args,
                   ret, exitKind, resVars, obsVars, exVars, afterLoginUrl, flowVars, stepVars, dvVars, clVars,
                   cpVars>>

\* read the argument, parse it, validate every request; any failure exits with 1
MainValidate ==
    /\ bpc = "main"
    /\ IF InputAccepted(input, accounts)
       THEN bpc' = "loop" /\ exitCode' = exitCode
       ELSE bpc' = "exited" /\ exitCode' = 1
    /\ UNCHANGED mainUnchanged
    /\ UNCHANGED <<reuseVars, genVars, stealthVars, watchVars, noteVars>>

\* the batch has returned: exit with the code its failed count asks for
MainExit ==
    /\ bpc = "done" /\ input # "library"
    /\ exitCode' = ExitCodeOf(batchRet.failed)
    /\ bpc' = "exited"
    /\ UNCHANGED mainUnchanged
    /\ UNCHANGED <<reuseVars, genVars, stealthVars, watchVars, noteVars>>

\* the batch rejected: catch (error) of the entry exits with 1
MainCatch ==
    /\ bpc = "rejected" /\ input # "library"
    /\ exitCode' = 1
    /\ bpc' = "exited"
    /\ UNCHANGED mainUnchanged
    /\ UNCHANGED <<reuseVars, genVars, stealthVars, watchVars, noteVars>>

Next ==
    \/ MainValidate \/ MainExit \/ MainCatch
    \/ DirectCall
    \/ BatchCall \/ BatchPush \/ BatchDelay \/ BatchReturn \/ BatchRejects
    \/ Launch \/ OnUserSelfResponse \/ GotoLogin \/ FastGoto \/ WaitUserSelf \/ WaitUserSelf2
    \/ DismissAnnouncement \/ RegisterPopupWatch \/ ClickConsent \/ Credentials \/ TwoFactor \/ LinuxDoLogin
    \/ Callback \/ Extract \/ Cleanup
    \/ OperatorSetsCode \/ RegisterVerification \/ WaitOtpField \/ PollLoop \/ PollFetch
    \/ FillCode \/ PollSleep \/ PollExit
    \/ ChangerInitialize \/ ChangerChangePassword \/ ReportOutcome \/ ChangerCleanup

Spec == Init /\ [][Next]_vars

(***************************************************************************)
(* The cleanup on its own: the try block of a run has ended in its first   *)
(* failure after the launch, the session is in one of the states the       *)
(* launch can leave it in, and the profile holds any set of cookies.  A    *)
(* user of the changer may call cleanup() once more.                       *)
(***************************************************************************)
\* browser, context and page as the launch leaves them
SessionStates(v) ==
    IF v = "github"
    THEN {<<"null", "null", "null">>, <<"null", "open", "null">>, <<"null", "open", "open">>}
    ELSE {<<"null", "null", "null">>, <<"open", "null", "null">>,
          <<"open", "open", "null">>, <<"open", "open", "open">>}

\* a second call of cleanup() on the same changer
ChangerCleanupAgain ==
    /\ pc = "returned" /\ variant = "changepw" /\ cleanupRan /\ ~againRan
    /\ RunCleanup(<<"page", "context", "browser">>, TRUE)
    /\ UNCHANGED <<batchVars, pc, args, ret, exitKind, obsVars, exVars, afterLoginUrl,
                   flowVars, stepVars, dvVars, cpVars>>
    /\ UNCHANGED <<reuseVars, genVars, stealthVars, watchVars, noteVars>>

CleanupInit ==
    /\ variant \in Variants
    /\ baseUrl \in (IF variant = "github" THEN BaseUrls ELSE {"anyrouter.top"})
    /\ input = (IF variant = "changepw" THEN "list" ELSE "library")
    /\ accounts = (IF variant = "changepw" THEN <<ChangeRequest(1)>>
                   ELSE AccountList(variant, 1))
    /\ idx = 1 /\ results = <<>> /\ successCount = 0 /\ failedCount = 0
    /\ delayCount = 0 /\ exitCode = NoExit /\ bpc = "await"
    /\ batchRet = [done |-> FALSE, total |-> 0, success |-> 0, failed |-> 0]
    /\ runOutcome = <<>> /\ leaked = 0 /\ lastDelay = 0
    /\ allCookies \in (IF variant = "github" THEN SUBSET CookieDomains ELSE {CookieDomains})
    /\ pc = (IF variant = "changepw" THEN "cp_finally" ELSE "finally")
    /\ args = CallArgs(variant, accounts[1])
    /\ ret = NullResult
    /\ exitKind = (IF variant = "changepw" THEN "none" ELSE "thrown")
    /\ \E st \in SessionStates(variant) :
        /\ browser = st[1] /\ context = st[2] /\ page = st[3]
        /\ changeResult = (IF variant = "changepw" /\ st[3] = "open"
                           THEN ChangeFailure("timeout", FALSE) ELSE NoChange)
        /\ reported = (IF variant = "changepw"
                       THEN [status |-> 3, increment_error_count |-> FALSE] ELSE NoReport)
        /\ uploads = (IF variant = "changepw"
                      THEN <<[status |-> 3, outcome |-> "ok"]>> ELSE <<>>)
        /\ single = (CASE variant # "changepw" -> NoSingle
                       [] st[3] = "open" -> [success |-> FALSE, message |-> "timeout"]
                       [] OTHER -> [success |-> FALSE, message |-> "init_failed"])
    /\ userSelfResponse = NoBody /\ userSelfResolved = FALSE /\ respCount = 0
    /\ sessionCookie = JSNull /\ apiUser = JSNull /\ idSource = "none"
    /\ afterLoginUrl = "none"
    /\ landed = "none" /\ waited = FALSE /\ popupWatch = FALSE
    /\ activePage = "main" /\ popupEvent = "none"
    /\ totp = "none" /\ finalTotpUrl = "none" /\ consent = "none"
    /\ registered = "none" /\ emailTo = "none" /\ notice = "none" /\ lastFetch = "none"
    /\ now = 0 /\ expireTime = 0 /\ maxPollingTime = 0 /\ startTime = 0
    /\ storeCode = <<>> /\ deviceCodeFilled = FALSE /\ observed = <<>>
    /\ dvOutcome = "none"
    /\ setAt = NoTime /\ fillCount = 0 /\ filledValue = <<>> /\ filledAt = NoTime
    /\ fetchCount = 0 /\ fetchesAfterObserve = 0
    /\ expiredReports = 0 /\ expiredAt = NoTime
    /\ goodFetchSinceSet = FALSE /\ failedFetchSinceSet = FALSE
    /\ cleanupRan = FALSE /\ closeDue = {} /\ closeTried = {}
    /\ cookiesLeft = allCookies /\ againRan = FALSE /\ reclosed = {}
    /\ present = OptionalApis /\ PageFresh /\ WatchFresh /\ GenIdle /\ ReuseFresh

CleanupNext == Cleanup \/ ChangerCleanup \/ ChangerCleanupAgain

CleanupSpec == CleanupInit /\ [][CleanupNext]_vars

(***************************************************************************)
(* The payload on its own: a document of a direct call's page, with any    *)
(* set of the optional globals, on which the init script runs.             *)
(***************************************************************************)
StealthInit ==
    /\ RunnerInit
    /\ variant = "github" /\ baseUrl = "anyrouter.top" /\ input = "direct"
    /\ accounts = <<Identity(1)>>
    /\ present \in SUBSET OptionalApis
    /\ PageFresh /\ WatchFresh /\ GenIdle /\ ReuseFresh

StealthNext == ApplyStealth

StealthSpec == StealthInit /\ [][StealthNext]_vars

(***************************************************************************)
(* The response handlers on their own: one run is started and launched,    *)
(* and from then on the responses of its pages are followed one by one.    *)
(* The handler awaits response.json(), so a response is handled in two     *)
(* steps: it arrives and is matched, and later its body is assigned.  Of   *)
(* the flow only the opening of the new tab, the installation of its       *)
(* handler and the read of the extraction are kept; pc stays at the entry  *)
(* of the try block.                                                       *)
(***************************************************************************)
MaxArrivals == 3

\* response URLs: the user-info endpoint itself, the endpoint with something
\* after it (a query string), and any other URL
ResponseUrls == {"self", "selfQuery", "other"}

WatchPages == {"main", "popup"}

\* url.includes('/api/user/self')
IncludesUserSelf(url) == url \in {"self", "selfQuery"}

\* url === `${this.baseUrl}/api/user/self`
EqualsUserSelf(url) == url = "self"

\* the test of the handler installed on the new tab
PopupMatches(url) == EqualsUserSelf(url)

\* the page has a handler, and the handler's test accepts the URL
HandlerCaptures(pg, url) ==
    IF pg = "main" THEN IncludesUserSelf(url)
    ELSE popup = "watched" /\ PopupMatches(url)

\* const newPage = await newPagePromise; await newPage.waitForLoadState(...)
PopupOpened ==
    /\ pc = "goto" /\ popup = "none" /\ ~extractDone
    /\ popup' = "opened"
    /\ UNCHANGED <<batchVars, pc, args, ret, exitKind, resVars, obsVars, exVars, afterLoginUrl,
                   flowVars, stepVars, dvVars, clVars, cpVars, noteVars, reuseVars, genVars, stealthVars, captured, inflight,
                   missed, arrivals, extractDone, readBody, readAfter>>

\* page = newPage; page.on('response', ...)
PopupWatched ==
    /\ pc = "goto" /\ popup = "opened" /\ ~extractDone
    /\ popup' = "watched"
    /\ UNCHANGED <<batchVars, pc, args, ret, exitKind, resVars, obsVars, exVars, afterLoginUrl,
                   flowVars, stepVars, dvVars, clVars, cpVars, noteVars, reuseVars, genVars, stealthVars, captured, inflight,
                   missed, arrivals, extractDone, readBody, readAfter>>

\* a response event on a page, up to the await of response.json()
ResponseArrives ==
    /\ pc = "goto" /\ arrivals < MaxArrivals /\ ~extractDone
    /\ \E pg \in WatchPages, url \in ResponseUrls, b \in Bodies :
        /\ pg = "popup" => popup # "none"
        /\ IF HandlerCaptures(pg, url)
           THEN /\ captured' = Append(captured, b)
                /\ inflight' = inflight \cup {Len(captured) + 1}
                /\ UNCHANGED missed
           ELSE /\ missed' = IF IncludesUserSelf(url)
                             THEN missed \cup {[url |-> url, page |-> pg, popup |-> popup]}
                             ELSE missed
                /\ UNCHANGED <<captured, inflight>>
    /\ arrivals' = arrivals + 1
    /\ UNCHANGED <<batchVars, pc, args, ret, exitKind, resVars, obsVars, exVars, afterLoginUrl,
                   flowVars, stepVars, dvVars, clVars, cpVars, noteVars, reuseVars, genVars, stealthVars, popup, extractDone,
                   readBody, readAfter>>

\* response.json() of a captured response settles:
\* userSelfResponse = <body>; userSelfResolve(true)
ParseDone ==
    /\ pc = "goto"
    /\ \E n \in inflight :
        /\ userSelfResponse' = captured[n]
        /\ inflight' = inflight \ {n}
    /\ userSelfResolved' = TRUE
    /\ UNCHANGED <<batchVars, pc, args, ret, exitKind, resVars, respCount, exVars, afterLoginUrl,
                   flowVars, stepVars, dvVars, clVars, cpVars, noteVars, reuseVars, genVars, stealthVars, popup, captured,
                   missed, arrivals, extractDone, readBody, readAfter>>

\* if (userSelfResponse && userSelfResponse.data): the extraction reads the
\* retained body
ExtractReads ==
    /\ pc = "goto" /\ ~extractDone
    /\ extractDone' = TRUE
    /\ readBody' = userSelfResponse
    /\ readAfter' = Len(captured)
    /\ UNCHANGED <<batchVars, pc, args, ret, exitKind, resVars, obsVars, exVars, afterLoginUrl,
                   flowVars, stepVars, dvVars, clVars, cpVars, noteVars, reuseVars, genVars, stealthVars, popup, captured,
                   inflight, missed, arrivals>>

ObserverInit ==
    /\ RunnerInit
    /\ variant \in LoginVariants /\ baseUrl = "anyrouter.top"
    /\ input = (IF variant = "github" THEN "direct" ELSE "library")
    /\ accounts = <<Identity(1)>>
    /\ present = OptionalApis /\ PageFresh /\ WatchFresh /\ GenIdle /\ ReuseFresh

ObserverNext ==
    \/ DirectCall \/ BatchCall \/ Launch
    \/ PopupOpened \/ PopupWatched \/ ResponseArrives \/ ParseDone \/ ExtractReads

ObserverSpec == ObserverInit /\ [][ObserverNext]_vars

(***************************************************************************)
(* The generators on their own: one generator instance, its record file,   *)
(* and generateNext calls on it, two of which can be in flight at once.    *)
(* A call is followed from await to await.                                 *)
(***************************************************************************)
\* the values the random choice can give
GenValues == {"a", "b", "c"}

\* generateNext is entered: await this.loadGenerated()
GenStart ==
    /\ \E c \in GenCalls :
        /\ gpc[c] = "idle" /\ Len(genReturned) < MaxGenerated
        /\ gpc' = [gpc EXCEPT ![c] = IF genLoaded THEN "pick" ELSE "reading"]
    /\ UNCHANGED <<genFile, genLoaded, genSet, genRead, genData, genPick, genReturned>>
    /\ UNCHANGED <<batchVars, pc, args, ret, exitKind, resVars, obsVars, exVars, afterLoginUrl,
                   flowVars, stepVars, dvVars, clVars, cpVars, noteVars, stealthVars, watchVars, reuseVars>>

\* fs.readFile settles with what the file holds (nothing when it is missing)
GenRead ==
    /\ \E c \in GenCalls :
        /\ gpc[c] = "reading"
        /\ genRead' = [genRead EXCEPT ![c] = genFile]
        /\ gpc' = [gpc EXCEPT ![c] = "assign"]
    /\ UNCHANGED <<genFile, genLoaded, genSet, genData, genPick, genReturned>>
    /\ UNCHANGED <<batchVars, pc, args, ret, exitKind, resVars, obsVars, exVars, afterLoginUrl,
                   flowVars, stepVars, dvVars, clVars, cpVars, noteVars, stealthVars, watchVars, reuseVars>>

\* this.generatedStrings = new Set(data.strings || [])
LoadedSet(old, content) == content

\* loadGenerated resumes: the set is replaced by the content read, loaded = true
GenAssign ==
    /\ \E c \in GenCalls :
        /\ gpc[c] = "assign"
        /\ genSet' = LoadedSet(genSet, genRead[c])
        /\ gpc' = [gpc EXCEPT ![c] = "pick"]
    /\ genLoaded' = TRUE
    /\ UNCHANGED <<genFile, genRead, genData, genPick, genReturned>>
    /\ UNCHANGED <<batchVars, pc, args, ret, exitKind, resVars, obsVars, exVars, afterLoginUrl,
                   flowVars, stepVars, dvVars, clVars, cpVars, noteVars, stealthVars, watchVars, reuseVars>>

\* the retry loop, which has no await in it: a value that is not in the set
\* is added and the call goes on to save, or every attempt hit a value of
\* the set and the call throws
GenPick ==
    /\ \E c \in GenCalls :
        /\ gpc[c] = "pick"
        /\ \E v \in GenValues \cup {"none"} :
            IF v = "none"
            THEN /\ genSet # {}
                 /\ gpc' = [gpc EXCEPT ![c] = "idle"]
                 /\ UNCHANGED <<genSet, genPick>>
            ELSE /\ v \notin genSet
                 /\ genSet' = genSet \cup {v}
                 /\ genPick' = [genPick EXCEPT ![c] = v]
                 /\ gpc' = [gpc EXCEPT ![c] = "mkdir"]
    /\ UNCHANGED <<genFile, genLoaded, genRead, genData, genReturned>>
    /\ UNCHANGED <<batchVars, pc, args, ret, exitKind, resVars, obsVars, exVars, afterLoginUrl,
                   flowVars, stepVars, dvVars, clVars, cpVars, noteVars, stealthVars, watchVars, reuseVars>>

\* saveGenerated: fs.mkdir settles; the data to write is built from the set as
\* it is then, and fs.writeFile is called
GenMkdir ==
    /\ \E c \in GenCalls, ok \in BOOLEAN :
        /\ gpc[c] = "mkdir"
        /\ IF ok
           THEN /\ genData' = [genData EXCEPT ![c] = genSet]
                /\ gpc' = [gpc EXCEPT ![c] = "write"]
           ELSE /\ gpc' = [gpc EXCEPT ![c] = "idle"]
                /\ UNCHANGED genData
    /\ UNCHANGED <<genFile, genLoaded, genSet, genRead, genPick, genReturned>>
    /\ UNCHANGED <<batchVars, pc, args, ret, exitKind, resVars, obsVars, exVars, afterLoginUrl,
                   flowVars, stepVars, dvVars, clVars, cpVars, noteVars, stealthVars, watchVars, reuseVars>>

\* fs.writeFile settles: the file holds the data, and generateNext returns the
\* value; a failed write is thrown to the caller
GenWrite ==
    /\ \E c \in GenCalls, ok \in BOOLEAN :
        /\ gpc[c] = "write"
        /\ gpc' = [gpc EXCEPT ![c] = "idle"]
        /\ IF ok
           THEN /\ genFile' = genData[c]
                /\ genReturned' = Append(genReturned, genPick[c])
           ELSE UNCHANGED <<genFile, genReturned>>
    /\ UNCHANGED <<genLoaded, genSet, genRead, genData, genPick>>
    /\ UNCHANGED <<batchVars, pc, args, ret, exitKind, resVars, obsVars, exVars, afterLoginUrl,
                   flowVars, stepVars, dvVars, clVars, cpVars, noteVars, stealthVars, watchVars, reuseVars>>

GeneratorInit ==
    /\ RunnerInit
    /\ variant = "github" /\ baseUrl = "anyrouter.top" /\ input = "direct"
    /\ accounts = <<Identity(1)>>
    /\ present = OptionalApis /\ PageFresh /\ WatchFresh /\ GenIdle /\ ReuseFresh

GeneratorNext == GenStart \/ GenRead \/ GenAssign \/ GenPick \/ GenMkdir \/ GenWrite

GeneratorSpec == GeneratorInit /\ [][GeneratorNext]_vars

(***************************************************************************)
(* A changer on its own: initialize() once, then changePassword for one    *)
(* account after the other on the same browser, context and page.          *)
(***************************************************************************)
MaxReuse == 3

\* how clearBrowserData can go: both steps work, context.clearCookies()
\* throws, or the page.evaluate that clears the storage throws; the catch
\* block logs a warning in both cases
ClearResults == {"ok", "cookies_threw", "storage_threw"}

\* the login call of the page (credentials: 'include') leaves the session
\* cookie of the account in the context when the interface answers success
LoggedIn(req, gotoR, loginR) ==
    /\ ~(req.new_username = "none" /\ req.new_password = "none")
    /\ gotoR = "ok"
    /\ loginR \in {"no_id", "ok"}

\* the session cookie after clearBrowserData
JarCleared(j, clearR) == IF clearR = "cookies_threw" THEN j ELSE 0

\* the session cookie the context holds when changePassword returns:
\* clearBrowserData is called before the return of the success only
JarAfter(j, k, req, gotoR, loginR, changeR, clearR) ==
    IF ~LoggedIn(req, gotoR, loginR) THEN j
    ELSE IF ChangePasswordResult(req, gotoR, loginR, changeR).success
    THEN JarCleared(k, clearR)
    ELSE k

\* one changePassword call, for the next account, on the changer
ReuseChangePassword ==
    /\ Len(reuseLog) < MaxReuse
    /\ LET k == Len(reuseLog) + 1 IN
       \E gotoR \in GotoResults, loginR \in LoginResults, changeR \in ChangeResults,
          clearR \in ClearResults :
          /\ jar' = JarAfter(jar, k, ChangeRequest(k), gotoR, loginR, changeR, clearR)
          /\ reuseLog' = Append(reuseLog,
                [result |-> ChangePasswordResult(ChangeRequest(k), gotoR, loginR, changeR),
                 account |-> k, before |-> jar, after |-> jar'])
    /\ UNCHANGED <<batchVars, pc, args, ret, exitKind, resVars, obsVars, exVars, afterLoginUrl,
                   flowVars, stepVars, dvVars, clVars, cpVars, noteVars, stealthVars, watchVars,
                   genVars>>

ReuseInit ==
    /\ RunnerInit
    /\ variant = "changepw" /\ input = "library"
    /\ accounts = AccountList("changepw", 1)
    /\ present = OptionalApis /\ PageFresh /\ WatchFresh /\ GenIdle /\ ReuseFresh

ReuseNext == ReuseChangePassword

ReuseSpec == ReuseInit /\ [][ReuseNext]_vars


(***************************************************************************)
(* Properties.                                                             *)
(***************************************************************************)
RunEnded == pc \in {"finally", "returned"}
BothObtained == Truthy(sessionCookie) /\ Truthy(apiUser)

\* C1: loginAndGetSession returns a non-null result only when both the session
\* cookie value and the user id were obtained and are non-empty strings, and
\* the result then carries exactly these two; when only one of them, or
\* neither, was obtained it returns null.
C1_AllOrNothing ==
    (variant \in LoginVariants /\ RunEnded) =>
        /\ ret.nonNull =>
              /\ sessionCookie.t = "string" /\ sessionCookie.s # <<>>
              /\ apiUser.t = "string" /\ apiUser.s # <<>>
              /\ ret.session = sessionCookie /\ ret.apiUser = apiUser
        /\ ~BothObtained => ret = NullResult

\* a run that obtained the session cookie but no user id has returned null
C1_Witness ==
    /\ variant \in LoginVariants /\ pc = "returned"
    /\ Truthy(sessionCookie) /\ ~Truthy(apiUser) /\ ret = NullResult
    /\ exitKind = "incomplete"

\* C2: whichever exit a loginAndGetSession run takes (success, early failure
\* return, incomplete extraction, thrown error), its cleanup block has run, and
\* has started on its steps when a close was due, before the result is with
\* the caller.
C2_CleanupBeforeReturn ==
    (variant \in LoginVariants /\ pc = "returned") =>
        /\ cleanupRan
        /\ exitKind \in {"success", "early", "incomplete", "thrown"}
        /\ closeDue # {} => closeTried # {}

\* an early failure return (two-factor or device verification) has been
\* followed by the closes of the page and the context
C2_Witness ==
    /\ variant = "github" /\ pc = "returned" /\ exitKind = "early"
    /\ cleanupRan /\ {"page", "context"} \subseteq closeTried

\* C3: in a cleanup every close that was due (page, context, browser) is
\* attempted, also when an earlier step of the cleanup failed.
C3_ClosesIndependent == cleanupRan => closeDue \subseteq closeTried

CodeSetNonBlank == setAt # NoTime /\ \E k \in 1..Len(storeCode) : storeCode[k] # " "

\* one polling interval as the loop can make it: the longest sleep and the
\* latency of the fetch that follows it
OneInterval == PollingInterval + PollJitter + MaxLatency

C5_ExpiredAtOrAfterExpiry ==
    /\ (pc \in DvPcs \cup {"dv_exit"} /\ setAt = NoTime) =>
          (dvOutcome # "Filled" /\ ~deviceCodeFilled /\ fillCount = 0)
    /\ dvOutcome = "Expired" =>
          /\ expiredAt >= expireTime
          /\ expiredReports = 1
          /\ fillCount = 0
          /\ RunEnded /\ ret = NullResult /\ exitKind = "early"

\* polling ran and ended as Expired with no code ever set
C5_Witness ==
    /\ dvOutcome = "Expired" /\ setAt = NoTime /\ fetchCount >= 2
    /\ pc = "returned" /\ expiredAt >= expireTime

\* C6: the code is never filled into the code field later than expireAt.
C6_NoFillAfterExpiry == fillCount > 0 => filledAt <= expireTime

\* C7: within one run the code field is filled at most once and no fetch of
\* the record follows the poll that observed the code.
C7_ConsumedAtMostOnce ==
    /\ fillCount <= 1
    /\ fetchesAfterObserve = 0
    /\ fillCount = 1 => deviceCodeFilled

\* the code was observed at the second poll or later and filled once
C7_Witness == fillCount = 1 /\ fetchCount >= 2 /\ pc = "dv_exit"

\* C8: the value filled into the code field is exactly the stored device code,
\* leading and trailing whitespace included.
C8_FilledValueIsStoredCode == fillCount > 0 => filledValue = storeCode

\* a code with leading and trailing whitespace has been filled
C8_Witness == fillCount = 1 /\ storeCode # Trim(storeCode) /\ filledValue = storeCode

OpenSessions == leaked + (IF SessionOpen THEN 1 ELSE 0)

\* C9: a run starts only when every earlier run has returned with its browser
\* session closed, so at most one browser session is open at any moment.
C9_OneSessionAtATime ==
    /\ pc # "idle" => leaked = 0
    /\ OpenSessions <= 1

Succeeded(k) == runOutcome[k]

FailureExits == {"thrown", "early", "incomplete"}

\* a failed run hands null to the batch, whatever its cleanup did
FailureBecomesNull ==
    /\ (variant \in LoginVariants /\ RunEnded /\ exitKind \in FailureExits) => ret = NullResult
    /\ (variant \in LoginVariants /\ pc = "returned") =>
          exitKind \in FailureExits \cup {"success"}
    /\ \A k \in 1..Len(results) : ~runOutcome[k] => ~results[k].success
    /\ bpc = "await" => Len(results) = idx - 1

\* the cleanup, failing or not, leaves the result alone, and the batch goes on
\* after a run whatever its result; a login run never rejects (only
\* executeSingleChangePassword can, when the upload in its catch block throws)
BatchGoesOn ==
    /\ pc = "finally" => (pc' = "returned" /\ ret' = ret /\ exitKind' = exitKind)
    /\ variant \in LoginVariants => pc' # "rejected"
    /\ (bpc = "await" /\ bpc' # "await" /\ pc # "rejected") =>
          /\ Len(results') = Len(results) + 1
          /\ results'[Len(results')].success = RunSucceeded
          /\ bpc' = (IF idx < Len(accounts) THEN "delay" ELSE "loop")

MinDelay(v) == IF v = "changepw" THEN BatchDelayBase ELSE AccountDelayMin
MaxDelay(v) == IF v = "changepw" THEN BatchDelayBase + BatchDelaySpan ELSE AccountDelayMax

\* the delays slept so far: one after each identity but the last
DelaysSoFar ==
    /\ bpc \in {"await", "delay"} => delayCount = idx - 1
    /\ bpc = "delay" => idx < Len(accounts)
    /\ (bpc = "loop" /\ idx <= Len(accounts)) => delayCount = idx - 1
    /\ (bpc = "loop" /\ 1 < idx /\ idx <= Len(accounts)) =>
          (MinDelay(variant) <= lastDelay /\ lastDelay <= MaxDelay(variant))
    /\ ((bpc \in {"done", "exited"} /\ pc # "rejected") \/ idx > Len(accounts)) =>
          delayCount = (IF Len(results) = 0 THEN 0 ELSE Len(results) - 1)

\* a delay is slept only between two identities, and within the bounds
DelayStep ==
    delayCount' # delayCount =>
        /\ delayCount' = delayCount + 1
        /\ Len(results) = idx /\ idx < Len(accounts)
        /\ MinDelay(variant) <= lastDelay' /\ lastDelay' <= MaxDelay(variant)
        /\ bpc' = "loop" /\ idx' = idx + 1

\* C12: the delay between two consecutive identities is at least the configured
\* minimum (5000 ms) and at most the configured maximum; there is one delay
\* between every two consecutive identities and none after the last.
C12_InterIdentityDelay == []DelaysSoFar /\ [][DelayStep]_vars

\* a batch of two has returned after one delay of at least the minimum
C12_Witness ==
    /\ bpc = "done" /\ Len(results) = 2 /\ delayCount = 1

\* C13 as claimed: the process exits with a non-zero code only when the count
\* of failed identities is greater than zero.
C13_NonZeroOnlyOnFailedIdentity ==
    (exitCode # NoExit /\ exitCode # 0) => failedCount > 0

\* C13 as amended: after a batch that ran to its end the exit code is 1 when
\* the count of failed identities is greater than zero and 0 otherwise; a
\* command line without an argument, with an argument that is not JSON, with an
\* empty list or with a request that fails validation exits with 1 before any
\* identity has run; a batch that rejected exits with 1 as well.
C13_ExitCode ==
    exitCode # NoExit =>
        /\ bpc = "exited" /\ exitCode \in {0, 1}
        /\ batchRet.done =>
              /\ InputAccepted(input, accounts)
              /\ exitCode = 1 <=> batchRet.failed > 0
              /\ batchRet.failed = Cardinality({k \in 1..Len(results) : ~results[k].success})
        /\ ~batchRet.done =>
              /\ exitCode = 1
              /\ IF pc = "rejected"
                 THEN InputAccepted(input, accounts) /\ single.message = "rejected"
                 ELSE /\ results = <<>> /\ failedCount = 0
                      /\ ~InputAccepted(input, accounts)

\* a batch in which every identity succeeded has exited with 0
C13_Witness ==
    /\ bpc = "exited" /\ exitCode = 0 /\ batchRet.done
    /\ Len(results) = 2 /\ batchRet.failed = 0

ApiRejections == {"login_rejected", "change_rejected"}

C15_TimeoutIsCounted ==
    (reported # NoReport /\ changeResult.kind = "timeout") => reported.increment_error_count

\* the run ended in the catch block before a page was there: opening the
\* session is what failed
OpenFailed == RunEnded /\ exitKind = "thrown" /\ page = "null"

\* C16 (as stated): a run of loginAndGetSession whose session could not be
\* opened hands its caller a value other than the null that every failure of
\* the login protocol returns, so that the caller can tell the two apart
C16_OpenFailureDistinguished ==
    (variant \in LoginVariants /\ pc = "returned" /\ OpenFailed) => ret # NullResult

\* the steps of the third-party login: consent click, popup, credentials,
\* challenges, callback
LoginBranchPcs ==
    {"dialog", "click", "clicking", "creds", "twofa", "ld_login", "dv_register",
     "dv_exit", "callback", "wait_self2"} \cup DvPcs

\* C17: when the URL after the first navigation is in the console area, the
\* run is never at a step of the third-party login, never waits for or
\* switches to a popup page, and is at the extraction only after the wait of
\* the console branch
C17_ConsoleSkipsLogin ==
    UrlIncludesConsole(landed) =>
        /\ pc \notin LoginBranchPcs
        /\ ~popupWatch /\ activePage = "main" /\ popupEvent = "none"
        /\ afterLoginUrl = "none" /\ dvOutcome = "none"
        /\ pc \in {"fast_goto", "wait_self", "extract", "finally", "returned"}

\* a run that landed on a console sub-page and returned a result
C17_Witness ==
    /\ landed = "consoleToken" /\ pc = "returned" /\ ret.nonNull /\ activePage = "main"

\* C18 (as stated): a run that is at the extraction has ended a bounded wait
\* on userSelfPromise before
C18_WaitBeforeExtraction == pc = "extract" => waited

\* the latest time the clock of a run can show: the last poll starts before
\* the deadline, which lies at most MaxExpire + MaxSkew after the start, and
\* is followed by one answer of the store and one sleep
Horizon == MaxExpire + MaxSkew + MaxLatency + PollingInterval + PollJitter

\* the steps of a run in the order of the code; the polling loop is one stage
StageOrder ==
    <<"returned", "finally", "extract", "wait_self2", "callback", "dv_exit", "dv_poll",
      "dv_otp", "dv_register", "ld_login", "twofa", "creds", "clicking", "click",
      "dialog", "wait_self", "fast_goto", "goto", "start">>

PollPcs == {"dv_loop", "dv_fetch", "dv_fill", "dv_sleep"}

StageOf(p) == IF p \in PollPcs THEN "dv_poll" ELSE p

StageRank(p) == CHOOSE k \in 1..Len(StageOrder) : StageOrder[k] = StageOf(p)

\* inside the polling loop: the time left up to the horizon, then the
\* position within one iteration
PollRank ==
    IF pc \in PollPcs
    THEN 4 * (Horizon - now)
         + (CASE pc = "dv_loop" -> 3 [] pc = "dv_fetch" -> 2 [] pc = "dv_sleep" -> 1
              [] OTHER -> 0)
    ELSE 0

RankBase == 4 * (Horizon + 1)

\* a measure of what a run still has in front of it
RunRank == StageRank(pc) * RankBase + PollRank

Running == variant \in LoginVariants /\ pc \notin {"idle", "returned"}

\* a step of the run itself, as opposed to a response or the operator
RunStep == Next /\ pc' # pc

RunCanStep == Running => (now >= 0 /\ now <= Horizon /\ ENABLED RunStep)

RankFalls ==
    Running => (IF pc' # pc THEN RunRank' < RunRank ELSE RunRank' = RunRank)

\* C19: a run of loginAndGetSession that has not returned can always take a
\* step of its own (no step waits without an end), the clock of the polling
\* stays below a fixed horizon, and every step of the run lowers a measure
\* that is a natural number, so the run returns after finitely many steps
C19_RunTerminates == []RunCanStep /\ [][RankFalls]_vars

\* a run that polled at least twice, ran into the expiry and returned
C19_Witness ==
    /\ variant \in LoginVariants /\ pc = "returned"
    /\ fetchCount >= 2 /\ dvOutcome = "Expired" /\ cleanupRan

\* the steps that follow the switch to the new page inside the login block
AfterPopupPcs ==
    {"creds", "twofa", "ld_login", "dv_register", "dv_exit", "callback", "wait_self2"}
    \cup DvPcs

\* C20: the wait for the new page is pending while the button is clicked, so
\* no page event of the click fires unheard, also when the page opens before
\* click() has returned; and at every later step of the login, and at the
\* extraction that follows it, the page the flow works on is the new page
C20_PopupWatchedBeforeClick ==
    /\ pc = "clicking" => popupWatch
    /\ popupEvent # "lost"
    /\ pc \in AfterPopupPcs => (activePage = "popup" /\ popupEvent \in {"immediately", "later"})
    /\ (pc = "extract" /\ OnLoginPage(variant, landed)) => activePage = "popup"
    /\ activePage = "popup" => popupEvent \in {"immediately", "later"}

\* the page opened before click() had returned and the flow went on with it
C20_Witness ==
    /\ popupEvent = "immediately" /\ activePage = "popup" /\ pc = "creds"

\* C21: without a two-factor secret no one-time code is ever computed or
\* typed, and a run whose URL after the credentials is the two-factor page is
\* at the test of the secret or has left through the early return with null:
\* it registers no device verification, leaves the consent untouched and
\* never waits for the user info or extracts
C21_NoSecretFailsAtOnce ==
    (variant = "github" /\ pc # "idle" /\ args.twofaSecret = "none") =>
        /\ totp = "none" /\ finalTotpUrl = "none"
        /\ afterLoginUrl = "twoFactor" =>
              /\ pc \in {"twofa", "finally", "returned"}
              /\ RunEnded => (ret = NullResult /\ exitKind = "early")
              /\ dvOutcome = "none" /\ fetchCount = 0 /\ consent = "none"
              /\ ~waited /\ sessionCookie = JSNull /\ apiUser = JSNull

\* a run without a secret that met the two-factor page and returned null
C21_Witness ==
    /\ variant = "github" /\ args.twofaSecret = "none" /\ afterLoginUrl = "twoFactor"
    /\ pc = "returned" /\ ret = NullResult /\ exitKind = "early" /\ cleanupRan

\* C22: after the cleanup of a run against agentrouter.org whose context
\* exists, the context holds no cookie of that domain and holds every cookie of
\* the other domains unchanged
C22_TargetCookiesStripped ==
    (cleanupRan /\ variant = "github" /\ baseUrl = "agentrouter.org" /\ context # "null") =>
        cookiesLeft = allCookies \ AgentRouterCookies(allCookies)

\* every resource of the session is released
Released ==
    /\ page \in {"null", "closed"}
    /\ context \in {"null", "closed"}
    /\ browser \in {"null", "closed"}

\* C23: a second call of the changer's cleanup() closes nothing that was
\* closed already and leaves the session fully released
C23_SecondCleanupSafe ==
    againRan => (reclosed = {} /\ Released)

\* C24: a second application of the payload to a document completes without
\* error, and every overridden property reads as after the first one
C24_PayloadIdempotent ==
    (applied = 2 /\ stealthThrew[1] = "none") =>
        /\ stealthThrew[2] = "none"
        /\ reads = [p \in Overridden |-> SpoofedValue(p)]

\* C25: the payload does not throw whatever optional globals are absent, and
\* after it the battery and the notification interface exist, natively or as
\* a stub
C25_AbsentApisTolerated ==
    applied >= 1 =>
        /\ stealthThrew[1] = "none"
        /\ {"getBattery", "Notification"} \subseteq present

\* C26: the extraction uses the body of the latest matching response that
\* had arrived when it started, whatever the order in which the bodies were
\* parsed (nothing, when no matching response had arrived)
C26_LatestArrivalIsRead ==
    extractDone =>
        readBody = (IF readAfter = 0 THEN NoBody ELSE captured[readAfter])

\* C27: once the first matching response has been handled, the retained body
\* is that of the first matching response, whatever matches after it
C27_FirstMatchWins ==
    (Len(captured) >= 1 /\ 1 \notin inflight) => userSelfResponse = captured[1]

\* C28: no response with a user-info URL goes uncaptured on the new tab
C28_PopupWatchesSamePattern ==
    \A m \in missed : m.page # "popup"

\* C29: a run that met the device-verification checkpoint after a passed
\* two-factor challenge has performed the device verification by the time it
\* goes on to the consent and the callback
C29_DeviceCheckAfterTwoFactor ==
    (variant = "github" /\ finalTotpUrl = "verifiedDevice"
       /\ pc \in {"callback", "wait_self2", "extract"}) =>
        dvOutcome # "none"

\* C30: a run that went through the third-party login and is past the wait
\* for the callback has clicked the provider's approve affordance, or there
\* was none
C30_ConsentApproved ==
    (pc \in {"wait_self2", "extract"} /\ OnLoginPage(variant, landed)) =>
        consent \in {"clicked", "absent"}

\* C31: once the device verification has expired, or its registration with
\* the record store was turned down or threw, the run is on its way out with
\* null and has entered neither the consent, nor the wait for the callback,
\* nor the extraction; and a verification that is registered or polling has
\* not been left behind
C31_FailedVerificationEndsRun ==
    /\ (dvOutcome = "Expired" \/ registered \in {"rejected", "threw"}) =>
          /\ pc \in {"finally", "returned"}
          /\ ret = NullResult /\ exitKind \in {"early", "thrown"}
          /\ consent = "none" /\ ~waited
          /\ sessionCookie = JSNull /\ apiUser = JSNull
    /\ dvOutcome \in {"Registered", "Polling"} => pc \in DvPcs \cup {"dv_exit"}

\* a run whose verification expired and that returned null
C31_Witness ==
    /\ dvOutcome = "Expired" /\ registered = "ok" /\ pc = "returned"
    /\ ret = NullResult /\ fetchCount >= 1

\* C32: a notice is sent or attempted only with an address, from the
\* argument or from EMAIL_TO; and whatever became of it, the run has not
\* ended: it stands before the wait for the code field, from where polling
\* starts
C32_NoticeBestEffort ==
    /\ notice \in MailResults => emailTo \in {"arg", "env"}
    /\ notice = "skipped" => (emailTo = "none" /\ args.noticeEmail = "none")
    /\ notice # "none" =>
          /\ pc = "dv_otp" /\ registered = "ok" /\ dvOutcome = "Registered"
          /\ exitKind = "none"
          /\ ENABLED WaitOtpField

\* a notice that could not be sent, and the run goes on
C32_Witness ==
    /\ notice \in {"no_config", "transport_error"} /\ emailTo = "arg"
    /\ pc = "dv_otp" /\ exitKind = "none"

\* C33: the run a GitHub batch has started uses every field of the identity
\* it was started for, the two-factor secret included
C33_IdentityHandedWhole ==
    (variant = "github" /\ input = "library" /\ bpc = "await" /\ pc # "idle") =>
        /\ args.accountId = accounts[idx].account_id
        /\ args.username = accounts[idx].username
        /\ args.password = accounts[idx].password
        /\ args.noticeEmail = accounts[idx].notice_email
        /\ args.twofaSecret = accounts[idx].twofa_secret

\* C34: the extraction takes the user id from the retained user-info response
\* exactly when that response carries data, and the id it then reports is the
\* one of the response; it goes to localStorage only when there is no such
\* response
C34_ResponseBeforeStorage ==
    idSource # "none" =>
        /\ pc \in {"finally", "returned"}
        /\ idSource = "response" <=> userSelfResponse.kind = "data"
        /\ idSource = "storage" <=> userSelfResponse.kind \in {"null", "nodata"}
        /\ idSource = "response" => apiUser = ApiUserOf(userSelfResponse.id)

\* an extraction that took a usable id from a response with data
C34_Witness ==
    /\ idSource = "response" /\ userSelfResponse.kind = "data" /\ Truthy(apiUser)
    /\ exitKind = "success"

\* C35: generateNext never returns a value it has returned before
C35_NeverReturnsTwice ==
    \A i, j \in 1..Len(genReturned) : i # j => genReturned[i] # genReturned[j]

\* a poll that failed, gave no record, or gave a record whose code is empty or
\* whitespace only
PollWithoutCode ==
    \/ lastFetch \in {"fail", "nodata"}
    \/ lastFetch = "data" /\ ~CodePresent(storeCode)

\* such a poll neither fills nor ends the run: the coordinator stays Polling
\* and the run waits
PollStaysPolling ==
    (pc = "dv_fetch" /\ PollWithoutCode') =>
        /\ pc' = "dv_sleep" /\ dvOutcome' = "Polling"
        /\ ~deviceCodeFilled' /\ fillCount' = fillCount /\ ret' = ret

\* the run leaves the wait after one polling interval (and its jitter), and
\* then polls the record again as long as the expiry has not passed
PollsAgain ==
    /\ (pc = "dv_sleep" /\ pc' # pc) =>
          /\ pc' = "dv_loop"
          /\ now' - now \in PollingInterval..(PollingInterval + PollJitter)
    /\ (pc = "dv_loop" /\ pc' # pc /\ fetchCount > 0 /\ now < expireTime) => pc' = "dv_fetch"

\* C36: a poll that reports failure, returns no record, or returns an empty or
\* whitespace-only device code leaves the coordinator Polling (no fill, no end
\* of the run), and the next poll comes one polling interval later as long as
\* the expiry has not passed
C36_PollWithoutCodeKeepsPolling == [][PollStaysPolling /\ PollsAgain]_vars

C36_Witness ==
    /\ pc = "dv_fetch" /\ fetchCount >= 2 /\ dvOutcome = "Polling"
    /\ storeCode = <<" ">> /\ goodFetchSinceSet /\ failedFetchSinceSet

\* C37: once the one-time code has been typed and the block has read the final
\* URL, a run whose page is still the two-factor page or is the login page has
\* left through the early return with null: it registers no device
\* verification, does not go on to the callback, never waits for the user
\* info and extracts nothing; a run that goes on has left both pages
C37_TwoFactorMustLeaveBothPages ==
    (variant = "github" /\ totp = "typed" /\ finalTotpUrl \in {"twoFactor", "login"}) =>
        /\ pc \in {"finally", "returned"}
        /\ RunEnded => (ret = NullResult /\ exitKind = "early")
        /\ dvOutcome = "none" /\ fetchCount = 0 /\ registered = "none"
        /\ ~waited /\ sessionCookie = JSNull /\ apiUser = JSNull

\* a run whose code was typed, whose page then showed the login page, and
\* which returned null
C37_Witness ==
    /\ variant = "github" /\ totp = "typed" /\ finalTotpUrl = "login"
    /\ args.twofaSecret # "none"
    /\ pc = "returned" /\ ret = NullResult /\ exitKind = "early" /\ cleanupRan

\* C38: a run whose changePassword reported success sends status 2 and never
\* status 3 to the record store, and returns success = true, however the
\* upload of the result ends
C38_ChangedIsNeverRecordedFailed ==
    (variant = "changepw" /\ changeResult.success
       /\ pc \in {"cp_finally", "returned", "rejected"}) =>
        /\ single.success
        /\ \A k \in 1..Len(uploads) : uploads[k].status = 2

\* a request without a record id, an old username or an old password, or with
\* neither a new username nor a new password
RequestIncomplete(d) ==
    \/ d.record_id = 0 \/ d.old_username = 0 \/ d.old_password = 0
    \/ d.new_username = "none" /\ d.new_password = "none"

\* C39: a command line whose list holds an incomplete request starts no work
\* for any account of the list (no browser, no password change, no report to
\* the record store, no entry), and the process exits with code 1
C39_ValidatedBeforeAnyWork ==
    (variant = "changepw" /\ input = "list"
       /\ \E k \in 1..Len(accounts) : RequestIncomplete(accounts[k])) =>
        /\ bpc \in {"main", "exited"} /\ pc = "idle"
        /\ results = <<>> /\ successCount = 0 /\ failedCount = 0
        /\ changeResult = NoChange /\ reported = NoReport /\ uploads = <<>>
        /\ browser = "null" /\ context = "null" /\ page = "null"
        /\ bpc = "exited" => exitCode = 1
        /\ bpc = "main" => exitCode = NoExit

\* a list of two whose first request is complete and whose second lacks its
\* old password has exited with 1
C39_Witness ==
    /\ variant = "changepw" /\ input = "list" /\ Len(accounts) = 2
    /\ ~RequestIncomplete(accounts[1]) /\ accounts[2].old_password = 0
    /\ bpc = "exited" /\ exitCode = 1 /\ results = <<>>

\* C40: when a changePassword call on a reused browser has returned, the
\* context holds no session cookie, so that every call starts unauthenticated
C40_ContextCleanAfterEveryCall ==
    \A i \in 1..Len(reuseLog) : reuseLog[i].after = 0 /\ reuseLog[i].before = 0

====
